---- MODULE Spec2Model ----
(***************************************************************************)
(* GPX Studio: the document store (gpxStore), its snapshot history         *)
(* (historyStore) and the track/route operations of lib/gpx/operations.ts. *)
(*                                                                         *)
(* Identifiers returned by generateId() (crypto.randomUUID) are modelled   *)
(* as the successive values of the counter nextId: every call returns a    *)
(* value never returned before.  Names are sequences of text tokens, so    *)
(* that `${name} (1)` is Append(name, "(1)").  Coordinates are small       *)
(* integers.  Fields that every operation copies untouched (desc, cmt,     *)
(* src, type, number, link, sourceFile, metadata, filename) are left out.  *)
(***************************************************************************)
EXTENDS Integers, Sequences, FiniteSets, TLC

\* Number of store operations in a run.
MaxSteps == 4
\* Length of the undo stack; stands for maxHistory: 50 (uiStore.ts:132).
maxHistory == 2
\* Number of points of the longest segment or route handed to the operations.
MaxSegLen == 5
\* Number of segments of the largest track handed to the operations.
MaxSegs == 2
\* Number of points of the longest segment or route handed to the box deletion.
MaxRun == 3
\* Number of points of the longest list handed to simplifyTrack.
MaxTrackLen == 5

VARIABLES
    document,     \* useGpxStore.document
    selection,    \* useGpxStore.selection
    clipboard,    \* useGpxStore.clipboard
    past,         \* useHistoryStore.past
    future,       \* useHistoryStore.future
    colorIndex,   \* module variable colorIndex of lib/gpx/types
    nextId,       \* number of generateId() calls so far
    statusMessage,\* useUIStore.statusMessage
    last,         \* history variable: the last operation, its arguments, the document it started from
    steps,        \* history variable: number of operations so far
    fn,           \* pure operations: the function applied ("none" before any)
    input,        \* pure operations: its arguments
    output        \* pure operations: its result

storeVars == <<document, selection, clipboard, past, future, colorIndex, nextId,
               statusMessage, last, steps>>
pureVars == <<fn, input, output>>
vars == <<document, selection, clipboard, past, future, colorIndex, nextId,
          statusMessage, last, steps, fn, input, output>>

----------------------------------------------------------------------------
(* Sequence helpers standing for the JavaScript array methods used.        *)

\* Array.prototype.slice(from, to) with 0-based from (inclusive) and to (exclusive).
Slice(s, from, to) == SubSeq(s, from + 1, to)

\* Array.prototype.filter.
Filter(s, Keep(_)) == SelectSeq(s, Keep)

\* Array.prototype.map.
Map(s, F(_)) == [i \in 1..Len(s) |-> F(s[i])]

\* Array.prototype.flatMap / concatenation of a sequence of sequences.
RECURSIVE Flatten(_)
Flatten(ss) == IF ss = <<>> THEN <<>> ELSE Head(ss) \o Flatten(Tail(ss))

\* Array.prototype.reverse.
Reverse(s) == [i \in 1..Len(s) |-> s[Len(s) + 1 - i]]

\* Array.prototype.findIndex, 0-based, -1 when nothing matches.
FindIndex(s, Test(_)) ==
    IF \E i \in 1..Len(s) : Test(s[i])
    THEN (CHOOSE i \in 1..Len(s) : Test(s[i]) /\ \A j \in 1..(i - 1) : ~Test(s[j])) - 1
    ELSE -1

\* Array.prototype.some.
Some(s, Test(_)) == \E i \in 1..Len(s) : Test(s[i])

\* splice(index, 1) on a copy: the array without its element at 0-based index.
SpliceOne(s, index) ==
    IF index < 0 \/ index >= Len(s) THEN s
    ELSE SubSeq(s, 1, index) \o SubSeq(s, index + 2, Len(s))

----------------------------------------------------------------------------
(* lib/gpx/types: documents, identifiers, palette.                         *)

PaletteSize == 10

createEmptyDocument == [waypoints |-> <<>>, routes |-> <<>>, tracks |-> <<>>, modified |-> FALSE]

\* getNextTrackColor(): the colour at the cursor; the caller advances the cursor.
TrackColor(ci) == ci % PaletteSize

\* A GPXWaypoint as parseWaypoint builds it.
Point(id, lat, lon, ele, time) ==
    [id |-> id, lat |-> lat, lon |-> lon, ele |-> ele, time |-> time, name |-> <<>>, enabled |-> TRUE]

\* points.map(p => ({ ...p, id: generateId() })) with the first identifier n.
FreshPoints(points, n) == [i \in 1..Len(points) |-> [points[i] EXCEPT !.id = n + i - 1]]

\* A GPXTrackSegment, GPXTrack and GPXRoute.
Segment(id, points) == [id |-> id, points |-> points, enabled |-> TRUE]
Track(id, name, color, segments) ==
    [id |-> id, name |-> name, color |-> color, enabled |-> TRUE, expanded |-> TRUE,
     segments |-> segments]
Route(id, name, color, points) ==
    [id |-> id, name |-> name, color |-> color, enabled |-> TRUE, points |-> points]

\* All points of a track in path order (segments.flatMap(seg => seg.points)).
TrackPoints(track) == Flatten(Map(track.segments, LAMBDA seg : seg.points))

\* The part of a point that is not its identifier.
Payload(p) == [lat |-> p.lat, lon |-> p.lon, ele |-> p.ele, time |-> p.time, name |-> p.name]
Payloads(points) == Map(points, Payload)
Ids(points) == {points[i].id : i \in 1..Len(points)}

----------------------------------------------------------------------------
(* lib/gpx/operations.ts.  An operator that calls generateId() takes the   *)
(* counter n and returns the advanced counter with its result; one that    *)
(* throws returns ok = FALSE and nothing else.                             *)

\* splitSegmentAtIndex(segment, splitIndex)
\* A split that accepts the two end points of the segment as split index.
splitSegmentAtIndexAnyIndex(segment, splitIndex, n) ==
    LET len == Len(segment.points) IN
    IF splitIndex < 0 \/ splitIndex >= len
    THEN [ok |-> FALSE, error |-> "Split index must be within the segment"]
    ELSE [ok |-> TRUE,
          first  |-> Segment(n + len + 1, FreshPoints(Slice(segment.points, 0, splitIndex + 1), n)),
          second |-> Segment(n + len + 2, FreshPoints(Slice(segment.points, splitIndex, len),
                                                      n + splitIndex + 1)),
          nextId |-> n + len + 3]

\* A split that gives the split point to the second half only.
splitSegmentAtIndexExclusive(segment, splitIndex, n) ==
    LET len == Len(segment.points) IN
    IF splitIndex <= 0 \/ splitIndex >= len - 1
    THEN [ok |-> FALSE, error |-> "Split index must be within the segment"]
    ELSE [ok |-> TRUE,
          first  |-> Segment(n + len, FreshPoints(Slice(segment.points, 0, splitIndex), n)),
          second |-> Segment(n + len + 1, FreshPoints(Slice(segment.points, splitIndex, len),
                                                      n + splitIndex)),
          nextId |-> n + len + 2]

\* splitSegmentAtIndex(segment, splitIndex); n is the first fresh identifier.
splitSegmentAtIndex(segment, splitIndex, n) ==
    LET len == Len(segment.points) IN
    IF splitIndex <= 0 \/ splitIndex >= len - 1
    THEN [ok |-> FALSE, error |-> "Split index must be within the segment"]
    ELSE LET firstPoints  == FreshPoints(Slice(segment.points, 0, splitIndex + 1), n)
             secondPoints == FreshPoints(Slice(segment.points, splitIndex, len),
                                         n + splitIndex + 1)
             m == n + len + 1
         IN [ok |-> TRUE,
             first  |-> Segment(m, firstPoints),
             second |-> Segment(m + 1, secondPoints),
             nextId |-> m + 2]

\* splitTrack(track, segmentId, pointIndex); ci is the palette cursor.
splitTrack(track, segmentId, pointIndex, n, ci) ==
    LET segIndex == FindIndex(track.segments, LAMBDA sg : sg.id = segmentId) IN
    IF segIndex = -1 THEN [ok |-> FALSE, error |-> "Segment not found"]
    ELSE LET segment == track.segments[segIndex + 1]
             halves  == splitSegmentAtIndex(segment, pointIndex, n)
         IN IF ~halves.ok THEN halves
            ELSE LET firstTrack ==
                         [track EXCEPT
                            !.id = halves.nextId,
                            !.name = IF track.name # <<>> THEN Append(track.name, "(1)")
                                     ELSE <<"Track", "(1)">>,
                            !.segments = Slice(track.segments, 0, segIndex) \o <<halves.first>>,
                            !.expanded = TRUE]
                     secondTrack ==
                         [track EXCEPT
                            !.id = halves.nextId + 1,
                            !.name = IF track.name # <<>> THEN Append(track.name, "(2)")
                                     ELSE <<"Track", "(2)">>,
                            !.segments = <<halves.second>> \o
                                         Slice(track.segments, segIndex + 1, Len(track.segments)),
                            !.color = TrackColor(ci),
                            !.expanded = TRUE]
                 IN [ok |-> TRUE, first |-> firstTrack, second |-> secondTrack,
                     nextId |-> halves.nextId + 2, colorIndex |-> ci + 1]

\* A join that puts the second track's segments first.
joinTracksSwapped(track1, track2, n) ==
    [track1 EXCEPT !.id = n, !.segments = track2.segments \o track1.segments]

\* joinTracks(track1, track2)
joinTracks(track1, track2, n) ==
    [track1 EXCEPT
       !.id = n,
       !.name = IF track1.name # <<>> THEN track1.name
                ELSE IF track2.name # <<>> THEN track2.name
                ELSE <<"Joined Track">>,
       !.segments = track1.segments \o track2.segments]

\* mergeTrackSegments(track)
mergeTrackSegments(track, n) ==
    [track EXCEPT !.segments = <<Segment(n, TrackPoints(track))>>]

\* reverseSegment(segment)
reverseSegment(segment) == [segment EXCEPT !.points = Reverse(segment.points)]

\* A reversal that keeps the order of the segments.
reverseTrackKeepingSegmentOrder(track) ==
    [track EXCEPT !.segments = Map(track.segments, reverseSegment)]

\* reverseTrack(track)
reverseTrack(track) ==
    [track EXCEPT !.segments = Reverse(Map(track.segments, reverseSegment))]

\* reverseRoute(route)
reverseRoute(route) == [route EXCEPT !.points = Reverse(route.points)]

\* routeToTrack(route): ids in evaluation order: track, segment, points.
routeToTrack(route, n) ==
    Track(n, route.name, route.color, <<Segment(n + 1, FreshPoints(route.points, n + 2))>>)

\* trackToRoute(track): ids in evaluation order: points, route.
trackToRoute(track, n) ==
    LET allPoints == FreshPoints(TrackPoints(track), n) IN
    Route(n + Len(allPoints), track.name, track.color, allPoints)

----------------------------------------------------------------------------
(* Douglas-Peucker simplification.  Coordinates are integers; a distance   *)
(* is kept as the fraction num/den of its square, which orders distances   *)
(* as the metres of haversineDistance do on a small patch of the map.      *)

Sq(x) == x * x

\* haversineDistance between a point and the place start + (u/den) * (dx, dy).
DistanceTo(point, start, dx, dy, u, den) ==
    [num |-> Sq(den * (point.lon - start.lon) - u * dx)
             + Sq(den * (point.lat - start.lat) - u * dy),
     den |-> Sq(den)]

\* perpendicularDistance(point, lineStart, lineEnd): the distance to the
\* projection of the point on the chord, the projection clamped to the chord.
perpendicularDistance(point, lineStart, lineEnd) ==
    LET dx == lineEnd.lon - lineStart.lon
        dy == lineEnd.lat - lineStart.lat
        lineLenSq == dx * dx + dy * dy
        dot == (point.lon - lineStart.lon) * dx + (point.lat - lineStart.lat) * dy
    IN IF lineLenSq = 0 THEN DistanceTo(point, lineStart, 0, 0, 0, 1)
       ELSE IF dot <= 0 THEN DistanceTo(point, lineStart, dx, dy, 0, 1)            \* t = 0
       ELSE IF dot >= lineLenSq THEN DistanceTo(point, lineStart, dx, dy, 1, 1)    \* t = 1
       ELSE DistanceTo(point, lineStart, dx, dy, dot, lineLenSq)

\* distance > maxDistance for two distances.
Farther(d, e) == d.num * e.den > e.num * d.den

ZeroDistance == [num |-> 0, den |-> 1]

\* maxDistance >= tolerance in place of maxDistance > tolerance.
ExceedsToleranceOrEqual(d, tolerance) == tolerance <= 0 \/ d.num >= Sq(tolerance) * d.den

\* maxDistance > tolerance; the tolerance is a whole number of units.
ExceedsTolerance(d, tolerance) == tolerance < 0 \/ d.num > Sq(tolerance) * d.den

\* The loop with each point measured against the chord of its two
\* neighbours instead of the chord from the first point to the last.
RECURSIVE FarthestFromNeighbours(_, _, _, _)
FarthestFromNeighbours(points, i, maxDistance, maxIndex) ==
    IF i >= Len(points) - 1 THEN [maxDistance |-> maxDistance, maxIndex |-> maxIndex]
    ELSE LET distance == perpendicularDistance(points[i + 1], points[i], points[i + 2])
         IN IF Farther(distance, maxDistance)
            THEN FarthestFromNeighbours(points, i + 1, distance, i)
            ELSE FarthestFromNeighbours(points, i + 1, maxDistance, maxIndex)

\* The loop of simplifyTrack from index i on: the largest distance found and
\* the first index that has it; both stay 0 when no distance is above 0.
RECURSIVE FarthestFrom(_, _, _, _)
FarthestFrom(points, i, maxDistance, maxIndex) ==
    IF i >= Len(points) - 1 THEN [maxDistance |-> maxDistance, maxIndex |-> maxIndex]
    ELSE LET distance == perpendicularDistance(points[i + 1], points[1], points[Len(points)])
         IN IF Farther(distance, maxDistance)
            THEN FarthestFrom(points, i + 1, distance, i)
            ELSE FarthestFrom(points, i + 1, maxDistance, maxIndex)

\* simplifyTrack returning [...left, ...right], the joint point twice.
RECURSIVE simplifyTrackKeepingJoint(_, _)
simplifyTrackKeepingJoint(points, tolerance) ==
    IF Len(points) <= 2 THEN [ok |-> TRUE, points |-> points]
    ELSE LET far == FarthestFrom(points, 1, ZeroDistance, 0)
             maxIndex == far.maxIndex
         IN IF ExceedsTolerance(far.maxDistance, tolerance)
            THEN IF maxIndex = 0
                 THEN [ok |-> FALSE, error |-> "RangeError: Maximum call stack size exceeded"]
                 ELSE LET left == simplifyTrackKeepingJoint(Slice(points, 0, maxIndex + 1), tolerance)
                          right == simplifyTrackKeepingJoint(Slice(points, maxIndex, Len(points)),
                                                             tolerance)
                      IN IF ~left.ok THEN left
                         ELSE IF ~right.ok THEN right
                         ELSE [ok |-> TRUE, points |-> left.points \o right.points]
            ELSE [ok |-> TRUE, points |-> <<points[1], points[Len(points)]>>]

\* simplifyTrack(points, tolerance).  With maxIndex = 0 the right half is the
\* whole list again and the recursion never ends: the call stack overflows.
RECURSIVE simplifyTrack(_, _)
simplifyTrack(points, tolerance) ==
    IF Len(points) <= 2 THEN [ok |-> TRUE, points |-> points]
    ELSE LET far == FarthestFrom(points, 1, ZeroDistance, 0)
             maxIndex == far.maxIndex
         IN IF ExceedsTolerance(far.maxDistance, tolerance)
            THEN IF maxIndex = 0
                 THEN [ok |-> FALSE, error |-> "RangeError: Maximum call stack size exceeded"]
                 ELSE LET left == simplifyTrack(Slice(points, 0, maxIndex + 1), tolerance)
                          right == simplifyTrack(Slice(points, maxIndex, Len(points)), tolerance)
                      IN IF ~left.ok THEN left
                         ELSE IF ~right.ok THEN right
                         ELSE [ok |-> TRUE,
                               points |-> Slice(left.points, 0, Len(left.points) - 1)
                                          \o right.points]
            ELSE [ok |-> TRUE, points |-> <<points[1], points[Len(points)]>>]

----------------------------------------------------------------------------
(* Fresh identifiers for whole items, in the order the code calls          *)
(* generateId(): an item's own id first, then its children's.              *)

RECURSIVE SumSeq(_)
SumSeq(s) == IF s = <<>> THEN 0 ELSE Head(s) + SumSeq(Tail(s))

\* generateId() calls spent on a segment list, a track, a route.
SegmentsIdCount(segs) == SumSeq(Map(segs, LAMBDA sg : 1 + Len(sg.points)))
TrackIdCount(t) == 1 + SegmentsIdCount(t.segments)
RouteIdCount(r) == 1 + Len(r.points)

\* segments.map(seg => ({...seg, id: generateId(), points: seg.points.map(fresh)}))
FreshSegments(segs, n) ==
    [i \in 1..Len(segs) |->
        LET base == n + SegmentsIdCount(SubSeq(segs, 1, i - 1)) IN
        [segs[i] EXCEPT !.id = base, !.points = FreshPoints(@, base + 1)]]

FreshTrack(t, n) == [t EXCEPT !.id = n, !.segments = FreshSegments(@, n + 1)]
FreshRoute(r, n) == [r EXCEPT !.id = n, !.points = FreshPoints(@, n + 1)]

FreshTracks(ts, n) ==
    [i \in 1..Len(ts) |->
        FreshTrack(ts[i], n + SumSeq(Map(SubSeq(ts, 1, i - 1), TrackIdCount)))]
FreshRoutes(rs, n) ==
    [i \in 1..Len(rs) |->
        FreshRoute(rs[i], n + SumSeq(Map(SubSeq(rs, 1, i - 1), RouteIdCount)))]
TracksIdCount(ts) == SumSeq(Map(ts, TrackIdCount))
RoutesIdCount(rs) == SumSeq(Map(rs, RouteIdCount))

\* { ...record, key: value } for a key the record may lack.
WithField(r, key, value) ==
    [k \in DOMAIN r \cup {key} |-> IF k = key THEN value ELSE r[k]]

----------------------------------------------------------------------------
(* lib/gpx/parser.ts.  A GPX text is given by the elements it holds: wpt   *)
(* elements, rte elements with their rtept, trk elements with their trkseg *)
(* and trkpt; each point element by its lat, lon, ele and time.            *)

\* parseWaypoint(wpt) for an element with numeric lat and lon.
parseWaypoint(el, id) == Point(id, el.lat, el.lon, el.ele, el.time)

parsePoints(els, n) == [i \in 1..Len(els) |-> parseWaypoint(els[i], n + i - 1)]

\* parseRoutes(gpx): one generateId() and one getNextTrackColor() per rte.
parseRoutes(rtes, n, ci) ==
    [i \in 1..Len(rtes) |->
        LET base == n + SumSeq(Map(SubSeq(rtes, 1, i - 1), LAMBDA r : 1 + Len(r.points)))
        IN Route(base, rtes[i].name, TrackColor(ci + i - 1),
                 parsePoints(rtes[i].points, base + 1))]

\* The trkseg elements of one trk; a segment left without points is not pushed.
parseSegments(trksegs, n) ==
    LET all == [i \in 1..Len(trksegs) |->
                   LET base == n + SumSeq(Map(SubSeq(trksegs, 1, i - 1),
                                              LAMBDA sg : 1 + Len(sg)))
                   IN Segment(base, parsePoints(trksegs[i], base + 1))]
    IN Filter(all, LAMBDA sg : Len(sg.points) > 0)

TrkIdCount(trk) == 1 + SumSeq(Map(trk.segments, LAMBDA sg : 1 + Len(sg)))

\* parseTracks(gpx): a track left without segments is not pushed.
parseTracks(trks, n, ci) ==
    LET all == [i \in 1..Len(trks) |->
                   LET base == n + SumSeq(Map(SubSeq(trks, 1, i - 1), TrkIdCount))
                   IN Track(base, trks[i].name, TrackColor(ci + i - 1),
                            parseSegments(trks[i].segments, base + 1))]
    IN Filter(all, LAMBDA t : Len(t.segments) > 0)

\* parseGPX(xmlString) of a well-formed text: resetColorIndex(), then waypoints,
\* routes and tracks in that order.
parseGPX(gpx, n) ==
    LET n1 == n + Len(gpx.waypoints)
        n2 == n1 + SumSeq(Map(gpx.routes, LAMBDA r : 1 + Len(r.points)))
        n3 == n2 + SumSeq(Map(gpx.tracks, TrkIdCount))
    IN [doc |-> [waypoints |-> parsePoints(gpx.waypoints, n),
                 routes    |-> parseRoutes(gpx.routes, n1, 0),
                 tracks    |-> parseTracks(gpx.tracks, n2, Len(gpx.routes)),
                 modified  |-> FALSE],
        nextId |-> n3,
        colorIndex |-> Len(gpx.routes) + Len(gpx.tracks)]

\* A text as DOMParser and querySelector present it: whether the parsed
\* document holds a parsererror element, and the gpx element if there is one.
Text(gpx) == [parsererror |-> FALSE, gpx |-> <<gpx>>]
MalformedText == [parsererror |-> TRUE, gpx |-> <<>>]
TextWithoutGpx == [parsererror |-> FALSE, gpx |-> <<>>]

\* A parseGPX that resets the colour cursor before it looks for errors.
parseGPXStringResetFirst(xmlString, n, ci) ==
    IF xmlString.parsererror
    THEN [ok |-> FALSE, error |-> "XML Parse Error", nextId |-> n, colorIndex |-> 0]
    ELSE IF xmlString.gpx = <<>>
    THEN [ok |-> FALSE, error |-> "Invalid GPX file: no <gpx> element found",
          nextId |-> n, colorIndex |-> 0]
    ELSE LET parsed == parseGPX(xmlString.gpx[1], n)
         IN [ok |-> TRUE, error |-> "", doc |-> parsed.doc, nextId |-> parsed.nextId,
             colorIndex |-> parsed.colorIndex]

\* parseGPX(xmlString) from its first line: the two errors are thrown before
\* resetColorIndex() and before any generateId().
parseGPXString(xmlString, n, ci) ==
    IF xmlString.parsererror
    THEN [ok |-> FALSE, error |-> "XML Parse Error", nextId |-> n, colorIndex |-> ci]
    ELSE IF xmlString.gpx = <<>>
    THEN [ok |-> FALSE, error |-> "Invalid GPX file: no <gpx> element found",
          nextId |-> n, colorIndex |-> ci]
    ELSE LET parsed == parseGPX(xmlString.gpx[1], n)
         IN [ok |-> TRUE, error |-> "", doc |-> parsed.doc, nextId |-> parsed.nextId,
             colorIndex |-> parsed.colorIndex]

----------------------------------------------------------------------------
(* Inputs of the store operations.                                         *)

El(lat, lon) == [lat |-> lat, lon |-> lon, ele |-> 100 + lat, time |-> 10 + lat]

\* A GPX text with one track of two segments (3 and 2 points).
GpxTrack ==
    [waypoints |-> <<>>,
     routes    |-> <<>>,
     tracks    |-> << [name |-> <<"Ride">>,
                       segments |-> << <<El(0, 0), El(1, 0), El(2, 0)>>,
                                       <<El(3, 0), El(4, 0)>> >>] >>]

\* A GPX text with two waypoints and one unnamed route of three points.
GpxRoute ==
    [waypoints |-> <<El(1, 1), El(3, 1)>>,
     routes    |-> << [name |-> <<>>, points |-> <<El(0, 1), El(1, 1), El(2, 1)>>] >>,
     tracks    |-> <<>>]

Files == {GpxTrack, GpxRoute}

\* The texts handed to loadFromString: the files, a text that is not XML and an
\* XML text without a gpx element.
Texts == {Text(gpx) : gpx \in Files} \cup {MalformedText, TextWithoutGpx}

\* The boxes of a box selection: around the points of latitude 1 (the middle of
\* a run), and around the points of latitude 3 and 4 (a whole segment).
BoxMiddle == [south |-> 1, north |-> 1, west |-> 0, east |-> 1]
BoxTail == [south |-> 3, north |-> 4, west |-> 0, east |-> 1]
Boxes == {BoxMiddle, BoxTail}

\* The items the sidebar offers for selection.
SelectableItems(doc) ==
    {[type |-> "track", id |-> doc.tracks[i].id] : i \in 1..Len(doc.tracks)}
    \cup {[type |-> "route", id |-> doc.routes[i].id] : i \in 1..Len(doc.routes)}
    \cup {[type |-> "waypoint", id |-> doc.waypoints[i].id] : i \in 1..Len(doc.waypoints)}
    \cup UNION {{[type |-> "segment", trackId |-> doc.tracks[i].id,
                  segmentId |-> doc.tracks[i].segments[j].id]
                 : j \in 1..Len(doc.tracks[i].segments)} : i \in 1..Len(doc.tracks)}

TrackIds(doc) == {doc.tracks[i].id : i \in 1..Len(doc.tracks)}
RouteIds(doc) == {doc.routes[i].id : i \in 1..Len(doc.routes)}
WaypointIds(doc) == {doc.waypoints[i].id : i \in 1..Len(doc.waypoints)}

\* array.find(x => x.id === id) for an id the array holds.
Find(items, id) == items[FindIndex(items, LAMBDA x : x.id = id) + 1]

\* { ...item, ...updates }
Merge(item, updates) ==
    [k \in DOMAIN item \cup DOMAIN updates |->
        IF k \in DOMAIN updates THEN updates[k] ELSE item[k]]

----------------------------------------------------------------------------
(* stores/uiStore.ts: useHistoryStore.                                     *)

\* array.slice(-k)
LastN(s, k) == IF k = 0 \/ Len(s) <= k THEN s ELSE SubSeq(s, Len(s) - k + 1, Len(s))

\* A push that never evicts: [...state.past, cloned] without the slice.
pushStateUnbounded(oldPast, doc) == Append(oldPast, doc)

\* pushState(doc): the new past; the clone is the document itself (values are immutable).
pushState(oldPast, doc) == LastN(Append(oldPast, doc), maxHistory)

\* pushToHistory() of the gpx store: pushState(current document), which also empties future.
pushToHistory ==
    /\ past' = pushState(past, document)
    /\ future' = <<>>

----------------------------------------------------------------------------
(* The history variables: the operation that ran last is logged with its   *)
(* arguments and the document it started from.                             *)

Log(op, arg) ==
    /\ steps < MaxSteps
    /\ steps' = steps + 1
    /\ last' = [op |-> op, arg |-> arg, before |-> document]

\* The same for an operation that may throw: the error its caller receives
\* ("" when it returns).
LogThrown(op, arg, error) ==
    /\ steps < MaxSteps
    /\ steps' = steps + 1
    /\ last' = [op |-> op, arg |-> arg, before |-> document, thrown |-> error]

Init ==
    /\ document = createEmptyDocument
    /\ selection = <<>>
    /\ clipboard = <<>>
    /\ past = <<>>
    /\ future = <<>>
    /\ colorIndex = 0
    /\ nextId = 1
    /\ statusMessage = "Ready"
    /\ last = [op |-> "create", arg |-> <<>>, before |-> createEmptyDocument]
    /\ steps = 0
    /\ fn = "none"
    /\ input = <<>>
    /\ output = <<>>

----------------------------------------------------------------------------
(* The gpx store: loading, history.                                        *)

\* loadFromString(gpxString): the document parseGPX returns replaces the
\* document and empties the selection; an error parseGPX throws is logged and
\* thrown on, before set() is reached.
loadFromString ==
    \E gpxString \in Texts :
        LET parsed == parseGPXString(gpxString, nextId, colorIndex) IN
        /\ LogThrown("loadFromString", gpxString, parsed.error)
        /\ IF parsed.ok
           THEN /\ document' = parsed.doc
                /\ selection' = <<>>
           ELSE UNCHANGED <<document, selection>>
        /\ nextId' = parsed.nextId
        /\ colorIndex' = parsed.colorIndex
        /\ UNCHANGED <<clipboard, past, future, statusMessage, fn, input, output>>

\* mergeDocument(incomingDoc, sourceName), the incoming document parsed from a
\* file by the caller (handleFileSelected, handleDrop).
mergeDocumentCall(gpx) ==
        LET parsed == parseGPX(gpx, nextId)
            incomingDoc == parsed.doc
            sourceName == <<"file.gpx">>
            batchColor == TrackColor(parsed.colorIndex)
            n1 == parsed.nextId
            n2 == n1 + TracksIdCount(incomingDoc.tracks)
            n3 == n2 + RoutesIdCount(incomingDoc.routes)
            newTracks == Map(FreshTracks(incomingDoc.tracks, n1),
                             LAMBDA t : [t EXCEPT
                                 !.name = IF t.name # <<>> THEN t.name ELSE sourceName,
                                 !.color = batchColor])
            newRoutes == Map(FreshRoutes(incomingDoc.routes, n2),
                             LAMBDA r : [r EXCEPT
                                 !.name = IF r.name # <<>> THEN r.name ELSE sourceName,
                                 !.color = batchColor])
            newWaypoints == Map(FreshPoints(incomingDoc.waypoints, n3),
                                LAMBDA w : WithField(w, "color", batchColor))
        IN
        /\ pushToHistory
        /\ document' = [document EXCEPT
                          !.tracks = @ \o newTracks,
                          !.routes = @ \o newRoutes,
                          !.waypoints = @ \o newWaypoints,
                          !.modified = TRUE]
        /\ nextId' = n3 + Len(incomingDoc.waypoints)
        /\ colorIndex' = parsed.colorIndex + 1
        /\ UNCHANGED <<selection, clipboard>>

mergeDocument ==
    \E gpx \in Files :
        /\ Log("mergeDocument", gpx)
        /\ mergeDocumentCall(gpx)
        /\ UNCHANGED <<statusMessage, fn, input, output>>

\* clear(): pushToHistory(), then the history store's clear(), then the empty document.
clear ==
    /\ Log("clear", <<>>)
    /\ LET pushed == pushState(past, document)   \* pushToHistory()
           cleared == <<>>                         \* useHistoryStore.getState().clear()
       IN past' = cleared
    /\ future' = <<>>
    /\ document' = createEmptyDocument
    /\ selection' = <<>>
    /\ UNCHANGED <<clipboard, colorIndex, nextId, statusMessage, fn, input, output>>

\* The part of the two stores that undo() and redo() read and write.
HistoryView(doc, sel, p, f) == [document |-> doc, selection |-> sel, past |-> p, future |-> f]

\* undo(): the history store's undo() pops past (null when it is empty); the gpx
\* store then appends the current document to future and adopts the popped one.
UndoOf(st) ==
    IF st.past = <<>> THEN st
    ELSE [document  |-> st.past[Len(st.past)],
          selection |-> <<>>,
          past      |-> SubSeq(st.past, 1, Len(st.past) - 1),
          future    |-> Append(st.future, st.document)]

\* redo(): the history store's redo() pops future (null when it is empty) and
\* appends the popped document to past; the gpx store adopts it.
RedoOf(st) ==
    IF st.future = <<>> THEN st
    ELSE LET nextState == st.future[Len(st.future)] IN
         [document  |-> nextState,
          selection |-> <<>>,
          past      |-> Append(st.past, nextState),
          future    |-> SubSeq(st.future, 1, Len(st.future) - 1)]

Adopt(st) ==
    /\ document' = st.document
    /\ selection' = st.selection
    /\ past' = st.past
    /\ future' = st.future

undo ==
    /\ past # <<>>
    /\ Log("undo", <<>>)
    /\ Adopt(UndoOf(HistoryView(document, selection, past, future)))
    /\ UNCHANGED <<clipboard, colorIndex, nextId, statusMessage, fn, input, output>>

redo ==
    /\ future # <<>>
    /\ Log("redo", <<>>)
    /\ Adopt(RedoOf(HistoryView(document, selection, past, future)))
    /\ UNCHANGED <<clipboard, colorIndex, nextId, statusMessage, fn, input, output>>

----------------------------------------------------------------------------
(* The gpx store: selection and clipboard.                                 *)

select ==
    \E item \in SelectableItems(document) :
        /\ Log("select", item)
        /\ selection' = <<item>>
        /\ UNCHANGED <<document, clipboard, past, future, colorIndex, nextId,
                       statusMessage, fn, input, output>>

addToSelection ==
    \E item \in SelectableItems(document) :
        /\ Log("addToSelection", item)
        /\ selection' = Append(selection, item)
        /\ UNCHANGED <<document, clipboard, past, future, colorIndex, nextId,
                       statusMessage, fn, input, output>>

selectAll ==
    /\ Log("selectAll", <<>>)
    /\ selection' =
           Map(document.waypoints, LAMBDA w : [type |-> "waypoint", id |-> w.id])
           \o Map(document.routes, LAMBDA r : [type |-> "route", id |-> r.id])
           \o Map(document.tracks, LAMBDA t : [type |-> "track", id |-> t.id])
    /\ UNCHANGED <<document, clipboard, past, future, colorIndex, nextId,
                   statusMessage, fn, input, output>>

clearSelection ==
    /\ Log("clearSelection", <<>>)
    /\ selection' = <<>>
    /\ UNCHANGED <<document, clipboard, past, future, colorIndex, nextId,
                   statusMessage, fn, input, output>>

\* state.selection.some(s => s.type === type && s.id === id)
Selected(sel, type, id) == Some(sel, LAMBDA x : x.type = type /\ x.id = id)

\* The copies copySelected and cutSelected take, in selection order.
ItemsToCopy(doc, sel) ==
    Flatten(Map(sel, LAMBDA x :
        IF x.type = "track" /\ x.id \in TrackIds(doc) THEN <<Find(doc.tracks, x.id)>>
        ELSE IF x.type = "route" /\ x.id \in RouteIds(doc) THEN <<Find(doc.routes, x.id)>>
        ELSE IF x.type = "waypoint" /\ x.id \in WaypointIds(doc)
             THEN <<Find(doc.waypoints, x.id)>>
        ELSE <<>>))

copySelected ==
    /\ Log("copySelected", <<>>)
    /\ clipboard' = ItemsToCopy(document, selection)
    /\ UNCHANGED <<document, selection, past, future, colorIndex, nextId,
                   statusMessage, fn, input, output>>

cutSelected ==
    LET itemsToCopy == ItemsToCopy(document, selection) IN
    /\ Log("cutSelected", <<>>)
    /\ clipboard' = itemsToCopy
    /\ IF Len(itemsToCopy) > 0
       THEN /\ pushToHistory
            /\ document' = [document EXCEPT
                   !.tracks = Filter(@, LAMBDA t : ~Selected(selection, "track", t.id)),
                   !.routes = Filter(@, LAMBDA r : ~Selected(selection, "route", r.id)),
                   !.waypoints = Filter(@, LAMBDA w : ~Selected(selection, "waypoint", w.id)),
                   !.modified = TRUE]
            /\ selection' = <<>>
       ELSE UNCHANGED <<document, selection, past, future>>
    /\ UNCHANGED <<colorIndex, nextId, statusMessage, fn, input, output>>

\* The name of a pasted item.
CopyName(name, kind) == IF name # <<>> THEN Append(name, "(copy)") ELSE <<kind, "(copy)">>

\* generateId() calls spent on pasting one clipboard item.
PasteIdCount(item) ==
    IF "segments" \in DOMAIN item THEN TrackIdCount(item)
    ELSE IF "points" \in DOMAIN item THEN RouteIdCount(item)
    ELSE 1

\* paste(): the clipboard items appended one by one with fresh identifiers.
RECURSIVE PasteInto(_, _, _)
PasteInto(doc, items, n) ==
    IF items = <<>> THEN doc
    ELSE LET item == Head(items)
             next == IF "segments" \in DOMAIN item
                     THEN [doc EXCEPT
                             !.tracks = Append(@, [FreshTrack(item, n) EXCEPT
                                                     !.name = CopyName(item.name, "Track")]),
                             !.modified = TRUE]
                     ELSE IF "points" \in DOMAIN item
                     THEN [doc EXCEPT
                             !.routes = Append(@, [FreshRoute(item, n) EXCEPT
                                                     !.name = CopyName(item.name, "Route")]),
                             !.modified = TRUE]
                     ELSE [doc EXCEPT
                             !.waypoints = Append(@, [item EXCEPT
                                                     !.id = n,
                                                     !.name = CopyName(item.name, "Waypoint")]),
                             !.modified = TRUE]
         IN PasteInto(next, Tail(items), n + PasteIdCount(item))

paste ==
    /\ Len(clipboard) # 0
    /\ Log("paste", <<>>)
    /\ pushToHistory
    /\ document' = PasteInto(document, clipboard, nextId)
    /\ nextId' = nextId + SumSeq(Map(clipboard, PasteIdCount))
    /\ UNCHANGED <<selection, clipboard, colorIndex, statusMessage, fn, input, output>>

----------------------------------------------------------------------------
(* The gpx store: tracks, routes, waypoints.                               *)

\* What the store operations leave alone unless they say otherwise.
Rest == UNCHANGED <<clipboard, statusMessage, fn, input, output>>

\* A track as the map's drawing mode hands it to addTrack, a route and a waypoint
\* likewise: built by the caller with generateId() identifiers.
DrawnTrack(n) ==
    Track(n, <<"Track">>, 0,
          <<Segment(n + 1, <<Point(n + 2, 5, 0, 105, 15), Point(n + 3, 6, 0, 106, 16),
                             Point(n + 4, 7, 0, 107, 17)>>)>>)
DrawnRoute(n) ==
    Route(n, <<"Route">>, 0,
          <<Point(n + 1, 5, 1, 105, 15), Point(n + 2, 6, 1, 106, 16)>>)
DrawnWaypoint(n) == Point(n, 1, 0, 101, 11)

addTrack ==
    /\ Log("addTrack", <<>>)
    /\ pushToHistory
    /\ document' = [document EXCEPT !.tracks = Append(@, DrawnTrack(nextId)),
                                    !.modified = TRUE]
    /\ nextId' = nextId + 5
    /\ UNCHANGED <<selection, colorIndex>> /\ Rest

\* updateTrack(id, updates) as the properties panel calls it: a new name.
updateTrack ==
    \E id \in TrackIds(document) :
        /\ Log("updateTrack", id)
        /\ pushToHistory
        /\ document' = [document EXCEPT
               !.tracks = Map(@, LAMBDA t : IF t.id = id
                                            THEN Merge(t, [name |-> <<"Renamed">>]) ELSE t),
               !.modified = TRUE]
        /\ UNCHANGED <<selection, colorIndex, nextId>> /\ Rest

deleteTrack ==
    \E id \in TrackIds(document) :
        /\ Log("deleteTrack", id)
        /\ pushToHistory
        /\ document' = [document EXCEPT !.tracks = Filter(@, LAMBDA t : t.id # id),
                                        !.modified = TRUE]
        /\ selection' = Filter(selection, LAMBDA x : ~(x.type = "track" /\ x.id = id))
        /\ UNCHANGED <<colorIndex, nextId>> /\ Rest

toggleTrackEnabled ==
    \E id \in TrackIds(document) :
        /\ Log("toggleTrackEnabled", id)
        /\ document' = [document EXCEPT
               !.tracks = Map(@, LAMBDA t : IF t.id = id
                                            THEN [t EXCEPT !.enabled = ~t.enabled] ELSE t)]
        /\ UNCHANGED <<selection, past, future, colorIndex, nextId>> /\ Rest

toggleTrackExpanded ==
    \E id \in TrackIds(document) :
        /\ Log("toggleTrackExpanded", id)
        /\ document' = [document EXCEPT
               !.tracks = Map(@, LAMBDA t : IF t.id = id
                                            THEN [t EXCEPT !.expanded = ~t.expanded] ELSE t)]
        /\ UNCHANGED <<selection, past, future, colorIndex, nextId>> /\ Rest

addRoute ==
    /\ Log("addRoute", <<>>)
    /\ pushToHistory
    /\ document' = [document EXCEPT !.routes = Append(@, DrawnRoute(nextId)),
                                    !.modified = TRUE]
    /\ nextId' = nextId + 3
    /\ UNCHANGED <<selection, colorIndex>> /\ Rest

\* The store's updateRoute(id, updates).
UpdateRoute(id, updates) ==
    /\ pushToHistory
    /\ document' = [document EXCEPT
           !.routes = Map(@, LAMBDA r : IF r.id = id THEN Merge(r, updates) ELSE r),
           !.modified = TRUE]
    /\ UNCHANGED <<selection, colorIndex, nextId>>

\* updateRoute(id, updates) as the properties panel calls it: a new name.
updateRoute ==
    \E id \in RouteIds(document) :
        /\ Log("updateRoute", id)
        /\ UpdateRoute(id, [name |-> <<"Renamed">>])
        /\ Rest

deleteRoute ==
    \E id \in RouteIds(document) :
        /\ Log("deleteRoute", id)
        /\ pushToHistory
        /\ document' = [document EXCEPT !.routes = Filter(@, LAMBDA r : r.id # id),
                                        !.modified = TRUE]
        /\ selection' = Filter(selection, LAMBDA x : ~(x.type = "route" /\ x.id = id))
        /\ UNCHANGED <<colorIndex, nextId>> /\ Rest

toggleRouteEnabled ==
    \E id \in RouteIds(document) :
        /\ Log("toggleRouteEnabled", id)
        /\ document' = [document EXCEPT
               !.routes = Map(@, LAMBDA r : IF r.id = id
                                            THEN [r EXCEPT !.enabled = ~r.enabled] ELSE r)]
        /\ UNCHANGED <<selection, past, future, colorIndex, nextId>> /\ Rest

addWaypoint ==
    /\ Log("addWaypoint", <<>>)
    /\ pushToHistory
    /\ document' = [document EXCEPT !.waypoints = Append(@, DrawnWaypoint(nextId)),
                                    !.modified = TRUE]
    /\ nextId' = nextId + 1
    /\ UNCHANGED <<selection, colorIndex>> /\ Rest

updateWaypoint ==
    \E id \in WaypointIds(document) :
        /\ Log("updateWaypoint", id)
        /\ pushToHistory
        /\ document' = [document EXCEPT
               !.waypoints = Map(@, LAMBDA w : IF w.id = id
                                               THEN Merge(w, [name |-> <<"Renamed">>]) ELSE w),
               !.modified = TRUE]
        /\ UNCHANGED <<selection, colorIndex, nextId>> /\ Rest

deleteWaypoint ==
    \E id \in WaypointIds(document) :
        /\ Log("deleteWaypoint", id)
        /\ pushToHistory
        /\ document' = [document EXCEPT !.waypoints = Filter(@, LAMBDA w : w.id # id),
                                        !.modified = TRUE]
        /\ selection' = Filter(selection, LAMBDA x : ~(x.type = "waypoint" /\ x.id = id))
        /\ UNCHANGED <<colorIndex, nextId>> /\ Rest

toggleWaypointEnabled ==
    \E id \in WaypointIds(document) :
        /\ Log("toggleWaypointEnabled", id)
        /\ document' = [document EXCEPT
               !.waypoints = Map(@, LAMBDA w : IF w.id = id
                                               THEN [w EXCEPT !.enabled = ~w.enabled] ELSE w)]
        /\ UNCHANGED <<selection, past, future, colorIndex, nextId>> /\ Rest

\* setModified(modified)
setModified ==
    \E modified \in BOOLEAN :
        /\ Log("setModified", modified)
        /\ document' = [document EXCEPT !.modified = modified]
        /\ UNCHANGED <<selection, past, future, colorIndex, nextId>> /\ Rest

----------------------------------------------------------------------------
(* The gpx store: operations on tracks and routes.                         *)

reverseTrackAction ==
    \E id \in TrackIds(document) :
        /\ Log("reverseTrack", id)
        /\ pushToHistory
        /\ document' = [document EXCEPT
               !.tracks = Map(@, LAMBDA t : IF t.id = id THEN reverseTrack(t) ELSE t),
               !.modified = TRUE]
        /\ UNCHANGED <<selection, colorIndex, nextId>> /\ Rest

reverseRouteAction ==
    \E id \in RouteIds(document) :
        /\ Log("reverseRoute", id)
        /\ pushToHistory
        /\ document' = [document EXCEPT
               !.routes = Map(@, LAMBDA r : IF r.id = id THEN reverseRoute(r) ELSE r),
               !.modified = TRUE]
        /\ UNCHANGED <<selection, colorIndex, nextId>> /\ Rest

\* The loop of joinSelectedTracks: joined = joinTracks(joined, selectedTracks[i]).
RECURSIVE JoinAll(_, _, _)
JoinAll(joined, others, n) ==
    IF others = <<>> THEN joined
    ELSE JoinAll(joinTracks(joined, Head(others), n), Tail(others), n + 1)

joinSelectedTracks ==
    LET selectedTracks ==
            Map(Filter(selection, LAMBDA x : x.type = "track" /\ x.id \in TrackIds(document)),
                LAMBDA x : Find(document.tracks, x.id))
        selectedIds == {selectedTracks[i].id : i \in 1..Len(selectedTracks)}
    IN
    /\ Len(selectedTracks) >= 2
    /\ Log("joinSelectedTracks", <<>>)
    /\ pushToHistory
    /\ document' = [document EXCEPT
           !.tracks = Append(Filter(@, LAMBDA t : t.id \notin selectedIds),
                             JoinAll(selectedTracks[1], Tail(selectedTracks), nextId)),
           !.modified = TRUE]
    /\ selection' = <<>>
    /\ nextId' = nextId + Len(selectedTracks) - 1
    /\ UNCHANGED colorIndex /\ Rest

mergeTrackSegmentsAction ==
    \E id \in TrackIds(document) :
        /\ Log("mergeTrackSegmentsAction", id)
        /\ pushToHistory
        /\ document' = [document EXCEPT
               !.tracks = [i \in 1..Len(@) |->
                              IF @[i].id = id
                              THEN mergeTrackSegments(@[i],
                                       nextId + Cardinality({j \in 1..(i - 1) : @[j].id = id}))
                              ELSE @[i]],
               !.modified = TRUE]
        /\ nextId' = nextId + Cardinality({j \in 1..Len(document.tracks) :
                                              document.tracks[j].id = id})
        /\ UNCHANGED <<selection, colorIndex>> /\ Rest

convertRouteToTrack ==
    \E id \in RouteIds(document) :
        LET route == Find(document.routes, id) IN
        /\ Log("convertRouteToTrack", id)
        /\ pushToHistory
        /\ document' = [document EXCEPT
               !.routes = Filter(@, LAMBDA r : r.id # id),
               !.tracks = Append(@, routeToTrack(route, nextId)),
               !.modified = TRUE]
        /\ selection' = <<>>
        /\ nextId' = nextId + 2 + Len(route.points)
        /\ UNCHANGED colorIndex /\ Rest

convertTrackToRoute ==
    \E id \in TrackIds(document) :
        LET track == Find(document.tracks, id) IN
        /\ Log("convertTrackToRoute", id)
        /\ pushToHistory
        /\ document' = [document EXCEPT
               !.tracks = Filter(@, LAMBDA t : t.id # id),
               !.routes = Append(@, trackToRoute(track, nextId)),
               !.modified = TRUE]
        /\ selection' = <<>>
        /\ nextId' = nextId + Len(TrackPoints(track)) + 1
        /\ UNCHANGED colorIndex /\ Rest

\* createRouteFromWaypoints(waypointIds) for the ids of the selected waypoints,
\* as the sidebar passes them.
createRouteFromWaypoints ==
    LET waypointIds == Map(Filter(selection, LAMBDA x : x.type = "waypoint"), LAMBDA x : x.id)
        waypoints == Map(Filter(waypointIds, LAMBDA id : id \in WaypointIds(document)),
                         LAMBDA id : Find(document.waypoints, id))
        newRoute ==
            Route(nextId, <<"Route from", ToString(Len(waypoints)), "waypoints">>,
                  TrackColor(colorIndex),
                  [i \in 1..Len(waypoints) |->
                      [id |-> nextId + i, lat |-> waypoints[i].lat, lon |-> waypoints[i].lon,
                       ele |-> waypoints[i].ele, time |-> 0, name |-> waypoints[i].name,
                       enabled |-> TRUE]])
    IN
    /\ Len(waypointIds) >= 2
    /\ Len(waypoints) >= 2
    /\ Log("createRouteFromWaypoints", waypointIds)
    /\ pushToHistory
    /\ document' = [document EXCEPT !.routes = Append(@, newRoute), !.modified = TRUE]
    /\ selection' = <<[type |-> "route", id |-> newRoute.id]>>
    /\ nextId' = nextId + 1 + Len(waypoints)
    /\ colorIndex' = colorIndex + 1
    /\ Rest

\* The store's deleteTrackPoint(trackId, segmentId, pointIndex).
DeleteTrackPoint(trackId, segmentId, pointIndex) ==
    /\ trackId \in TrackIds(document)
    /\ LET track == Find(document.tracks, trackId) IN
       /\ \E k \in 1..Len(track.segments) : track.segments[k].id = segmentId
       /\ LET segment == Find(track.segments, segmentId)
              newSegments ==
                  Filter(Map(track.segments,
                             LAMBDA sg : IF sg.id # segmentId THEN sg
                                         ELSE [sg EXCEPT !.points = SpliceOne(@, pointIndex)]),
                         LAMBDA sg : Len(sg.points) > 0)
          IN
          /\ ~(pointIndex < 0 \/ pointIndex >= Len(segment.points))
          /\ pushToHistory
          /\ IF Len(newSegments) = 0
             THEN /\ document' = [document EXCEPT
                         !.tracks = Filter(@, LAMBDA t : t.id # trackId),
                         !.modified = TRUE]
                  /\ selection' = <<>>
             ELSE /\ document' = [document EXCEPT
                         !.tracks = Map(@, LAMBDA t : IF t.id = trackId
                                                      THEN [t EXCEPT !.segments = newSegments]
                                                      ELSE t),
                         !.modified = TRUE]
                  /\ UNCHANGED selection
    /\ UNCHANGED <<colorIndex, nextId>>

\* array.splice(fromIndex, 1) then array.splice(toIndex, 0, moved)
Move(s, fromIndex, toIndex) ==
    LET moved == s[fromIndex + 1]
        without == SpliceOne(s, fromIndex)
    IN SubSeq(without, 1, toIndex) \o <<moved>> \o SubSeq(without, toIndex + 1, Len(without))

reorderTracks ==
    \E fromIndex, toIndex \in 0..(Len(document.tracks) - 1) :
        /\ fromIndex # toIndex
        /\ Log("reorderTracks", <<fromIndex, toIndex>>)
        /\ pushToHistory
        /\ document' = [document EXCEPT !.tracks = Move(@, fromIndex, toIndex),
                                        !.modified = TRUE]
        /\ UNCHANGED <<selection, colorIndex, nextId>> /\ Rest

----------------------------------------------------------------------------
(* The gpx store: deletePointsInBounds.                                    *)

pointInBounds(bounds, lat, lon) ==
    lat >= bounds.south /\ lat <= bounds.north /\ lon >= bounds.west /\ lon <= bounds.east

\* The loop over the points of one route or segment: points inside the box close
\* the current run, points outside extend it.
RECURSIVE RunsLoop(_, _, _, _)
RunsLoop(points, bounds, segments, currentSegment) ==
    IF points = <<>>
    THEN IF Len(currentSegment) > 0 THEN Append(segments, currentSegment) ELSE segments
    ELSE LET point == Head(points) IN
         IF pointInBounds(bounds, point.lat, point.lon)
         THEN RunsLoop(Tail(points), bounds,
                       IF Len(currentSegment) > 0 THEN Append(segments, currentSegment)
                       ELSE segments,
                       <<>>)
         ELSE RunsLoop(Tail(points), bounds, segments, Append(currentSegment, point))

SurvivingRuns(points, bounds) == RunsLoop(points, bounds, <<>>, <<>>)

\* generateId() calls spent on one route or segment: one per run after the first.
RunsIdCount(points, bounds) ==
    LET runs == SurvivingRuns(points, bounds) IN
    IF Len(runs) = 0 THEN 0 ELSE Len(runs) - 1

\* The routes one route turns into; n is the first fresh identifier.
DeleteFromRoute(route, bounds, n) ==
    LET segments == SurvivingRuns(route.points, bounds) IN
    IF Len(segments) = 0 THEN <<>>
    ELSE IF Len(segments) = 1 /\ Len(segments[1]) = Len(route.points) THEN <<route>>
    ELSE [idx \in 1..Len(segments) |->
             [route EXCEPT
                !.id = IF idx = 1 THEN route.id ELSE n + idx - 2,
                !.name = IF Len(segments) > 1
                         THEN (IF route.name # <<>> THEN route.name ELSE <<"Route">>)
                              \o <<"(", ToString(idx), ")">>
                         ELSE route.name,
                !.points = segments[idx]]]

DeleteFromRoutes(routes, bounds, n) ==
    Flatten([i \in 1..Len(routes) |->
        DeleteFromRoute(routes[i], bounds,
            n + SumSeq(Map(SubSeq(routes, 1, i - 1),
                           LAMBDA r : RunsIdCount(r.points, bounds))))])

\* The segments one segment turns into.
DeleteFromSegment(segment, bounds, n) ==
    LET subSegments == SurvivingRuns(segment.points, bounds) IN
    [idx \in 1..Len(subSegments) |->
        [segment EXCEPT !.id = IF idx = 1 THEN segment.id ELSE n + idx - 2,
                        !.points = subSegments[idx]]]

DeleteFromSegments(segs, bounds, n) ==
    Flatten([i \in 1..Len(segs) |->
        DeleteFromSegment(segs[i], bounds,
            n + SumSeq(Map(SubSeq(segs, 1, i - 1),
                           LAMBDA sg : RunsIdCount(sg.points, bounds))))])

TrackRunsIdCount(track, bounds) ==
    SumSeq(Map(track.segments, LAMBDA sg : RunsIdCount(sg.points, bounds)))

\* The tracks one track turns into: none, itself, or itself with new segments.
DeleteFromTrack(track, bounds, n) ==
    LET newSegmentsList == DeleteFromSegments(track.segments, bounds, n)
        trackModified == Some(TrackPoints(track),
                              LAMBDA pt : pointInBounds(bounds, pt.lat, pt.lon))
    IN IF Len(newSegmentsList) = 0 THEN <<>>
       ELSE IF ~trackModified THEN <<track>>
       ELSE <<[track EXCEPT !.segments = newSegmentsList]>>

DeleteFromTracks(tracks, bounds, n) ==
    Flatten([i \in 1..Len(tracks) |->
        DeleteFromTrack(tracks[i], bounds,
            n + SumSeq(Map(SubSeq(tracks, 1, i - 1),
                           LAMBDA t : TrackRunsIdCount(t, bounds))))])

\* deletePointsInBounds(bounds, options) as a function of the document:
\* the new document and the advanced identifier counter.
DeletePointsInBounds(doc, bounds, options, n) ==
    LET deleteWaypoints == ~options.tracksOnly
        deleteTracks == ~options.waypointsOnly
        n1 == n + SumSeq(Map(doc.routes, LAMBDA r : RunsIdCount(r.points, bounds)))
        n2 == n1 + SumSeq(Map(doc.tracks, LAMBDA t : TrackRunsIdCount(t, bounds)))
    IN [doc |-> [doc EXCEPT
                   !.waypoints = IF deleteWaypoints
                                 THEN Filter(@, LAMBDA w : ~pointInBounds(bounds, w.lat, w.lon))
                                 ELSE @,
                   !.routes = IF deleteTracks THEN DeleteFromRoutes(@, bounds, n) ELSE @,
                   !.tracks = IF deleteTracks THEN DeleteFromTracks(@, bounds, n1) ELSE @,
                   !.modified = TRUE],
        nextId |-> IF deleteTracks THEN n2 ELSE n]

\* The three ways the map's box selection calls deletePointsInBounds.
DeleteEverything == [waypointsOnly |-> FALSE, tracksOnly |-> FALSE]
DeleteWaypointsOnly == [waypointsOnly |-> TRUE,  tracksOnly |-> FALSE]
DeleteTracksOnly == [waypointsOnly |-> FALSE, tracksOnly |-> TRUE]

\* The calls made: every box with everything deleted, the first box with each option.
DeleteCalls ==
    {[bounds |-> b, options |-> DeleteEverything] : b \in Boxes}
    \cup {[bounds |-> BoxMiddle, options |-> o] : o \in {DeleteWaypointsOnly, DeleteTracksOnly}}

deletePointsInBounds ==
    \E call \in DeleteCalls :
        LET bounds == call.bounds
            options == call.options
            result == DeletePointsInBounds(document, bounds, options, nextId) IN
        /\ Log("deletePointsInBounds", [bounds |-> bounds, options |-> options])
        /\ pushToHistory
        /\ document' = result.doc
        /\ selection' = <<>>
        /\ nextId' = result.nextId
        /\ UNCHANGED colorIndex /\ Rest

----------------------------------------------------------------------------
(* Dialogs and panels that compose store operations.                       *)

\* SplitTrackDialog.handleSplit for the first selected track; the segment
\* chooser and the split slider hold any values set while the dialog was in use.
handleSplit ==
    /\ Some(selection, LAMBDA x : x.type = "track")
    /\ LET selectedTrack == selection[FindIndex(selection, LAMBDA x : x.type = "track") + 1] IN
       /\ selectedTrack.id \in TrackIds(document)
       /\ LET track == Find(document.tracks, selectedTrack.id) IN
          \E selectedSegmentIndex \in 0..(Len(track.segments) - 1),
             splitPointIndex \in 1..(MaxSegLen - 1) :
              LET segment == track.segments[selectedSegmentIndex + 1]
                  split == splitTrack(track, segment.id, splitPointIndex, nextId, colorIndex)
              IN
              /\ Len(segment.points) >= 3        \* the Split button is enabled
              /\ Log("handleSplit", [track |-> track.id, segment |-> segment.id,
                                     index |-> splitPointIndex])
              /\ IF split.ok
                 THEN \* deleteTrack(track.id); addTrack(firstTrack); addTrack(secondTrack)
                      LET doc1 == [document EXCEPT
                                      !.tracks = Filter(@, LAMBDA t : t.id # track.id),
                                      !.modified = TRUE]
                          doc2 == [doc1 EXCEPT !.tracks = Append(@, split.first)]
                          doc3 == [doc2 EXCEPT !.tracks = Append(@, split.second)]
                      IN
                      /\ past' = pushState(pushState(pushState(past, document), doc1), doc2)
                      /\ future' = <<>>
                      /\ document' = doc3
                      /\ selection' = Filter(selection,
                                             LAMBDA x : ~(x.type = "track" /\ x.id = track.id))
                      /\ nextId' = split.nextId
                      /\ colorIndex' = split.colorIndex
                      /\ statusMessage' = "Split into two tracks"
                 ELSE /\ statusMessage' = "Error splitting track"
                      /\ UNCHANGED <<document, selection, past, future, nextId, colorIndex>>
              /\ UNCHANGED <<clipboard, fn, input, output>>

\* The loop of the Delete command over the selection it captured: for a
\* track, route or waypoint entry the store's deleteTrack, deleteRoute or
\* deleteWaypoint, each with its own pushToHistory(); a segment entry is
\* passed over.
RECURSIVE DeleteSelected(_, _)
DeleteSelected(sels, st) ==
    IF sels = <<>> THEN st
    ELSE LET sel == Head(sels)
             removed ==
                 CASE sel.type = "track" ->
                        [st.document EXCEPT !.tracks = Filter(@, LAMBDA t : t.id # sel.id),
                                            !.modified = TRUE]
                   [] sel.type = "route" ->
                        [st.document EXCEPT !.routes = Filter(@, LAMBDA r : r.id # sel.id),
                                            !.modified = TRUE]
                   [] sel.type = "waypoint" ->
                        [st.document EXCEPT !.waypoints = Filter(@, LAMBDA w : w.id # sel.id),
                                            !.modified = TRUE]
                   [] OTHER -> st.document
         IN IF sel.type = "segment" THEN DeleteSelected(Tail(sels), st)
            ELSE DeleteSelected(Tail(sels),
                     HistoryView(removed,
                                 Filter(st.selection,
                                        LAMBDA x : ~(x.type = sel.type /\ x.id = sel.id)),
                                 pushState(st.past, st.document),
                                 <<>>))

\* The Delete command of the keyboard (useKeyboardShortcuts) and of the
\* toolbar (Toolbar.handleDelete), confirmed by the user when asked.
handleDelete ==
    /\ selection # <<>>
    /\ Log("handleDelete", selection)
    /\ Adopt(DeleteSelected(selection, HistoryView(document, selection, past, future)))
    /\ statusMessage' = "Deleted item(s)"
    /\ UNCHANGED <<colorIndex, nextId, clipboard, fn, input, output>>

\* PointsPanel.handleDeletePoint(index) for the single selected item.
handleDeletePoint ==
    /\ Len(selection) = 1
    /\ LET sel == selection[1] IN
       \/ /\ sel.type = "track"
          /\ sel.id \in TrackIds(document)
          /\ LET track == Find(document.tracks, sel.id) IN
             \E k \in 1..Len(track.segments) :
                 \E idx \in 0..(Len(track.segments[k].points) - 1) :
                     /\ Log("deleteTrackPoint",
                            [track |-> track.id, segment |-> track.segments[k].id, index |-> idx])
                     /\ DeleteTrackPoint(track.id, track.segments[k].id, idx)
          /\ statusMessage' = "Point deleted"
       \/ /\ sel.type = "route"
          /\ sel.id \in RouteIds(document)
          /\ LET route == Find(document.routes, sel.id) IN
             \E index \in 0..(Len(route.points) - 1) :
                 /\ Log("deleteRoutePoint", [route |-> route.id, index |-> index])
                 /\ UpdateRoute(route.id, [points |-> SpliceOne(route.points, index)])
          /\ statusMessage' = "Point deleted"
       \/ /\ sel.type = "segment"
          /\ sel.trackId \in TrackIds(document)
          /\ LET track == Find(document.tracks, sel.trackId) IN
             /\ \E k \in 1..Len(track.segments) : track.segments[k].id = sel.segmentId
             /\ \E idx \in 0..(Len(Find(track.segments, sel.segmentId).points) - 1) :
                    /\ Log("deleteTrackPoint",
                           [track |-> track.id, segment |-> sel.segmentId, index |-> idx])
                    /\ DeleteTrackPoint(track.id, sel.segmentId, idx)
          /\ statusMessage' = "Point deleted"
    /\ UNCHANGED <<clipboard, fn, input, output>>

\* The tolerance the simplify dialog starts with (its slider runs from 1 to 100).
DefaultTolerance == 10

\* SimplifyDialog.handleApply for the first selected track, else the first
\* selected route: simplifyTrack on all its points, fresh point ids, and for a
\* track one new segment; written with updateTrack / updateRoute.
handleApply ==
    LET hasTrack == Some(selection, LAMBDA x : x.type = "track" /\ x.id \in TrackIds(document))
        hasRoute == Some(selection, LAMBDA x : x.type = "route" /\ x.id \in RouteIds(document))
        tolerance == DefaultTolerance
    IN
    /\ Some(selection, LAMBDA x : x.type = "track") => hasTrack
    /\ (~hasTrack /\ Some(selection, LAMBDA x : x.type = "route")) => hasRoute
    /\ IF hasTrack
       THEN LET sel == selection[FindIndex(selection, LAMBDA x : x.type = "track") + 1]
                track == Find(document.tracks, sel.id)
                simplified == simplifyTrack(TrackPoints(track), tolerance)
                simplifiedPoints == FreshPoints(simplified.points, nextId)
                segmentId == nextId + Len(simplifiedPoints)
            IN /\ Len(TrackPoints(track)) >= 3
               /\ simplified.ok
               /\ Log("handleApply", [track |-> track.id, tolerance |-> tolerance])
               /\ pushToHistory
               /\ document' = [document EXCEPT
                      !.tracks = Map(@, LAMBDA t :
                                     IF t.id = track.id
                                     THEN Merge(t, [segments |->
                                                      <<Segment(segmentId, simplifiedPoints)>>])
                                     ELSE t),
                      !.modified = TRUE]
               /\ nextId' = segmentId + 1
               /\ statusMessage' = "Simplified track"
               /\ UNCHANGED <<selection, colorIndex>>
       ELSE /\ hasRoute
            /\ LET sel == selection[FindIndex(selection, LAMBDA x : x.type = "route") + 1]
                   route == Find(document.routes, sel.id)
                   simplified == simplifyTrack(route.points, tolerance)
                   simplifiedPoints == FreshPoints(simplified.points, nextId)
               IN /\ Len(route.points) >= 3
                  /\ simplified.ok
                  /\ Log("handleApply", [route |-> route.id, tolerance |-> tolerance])
                  /\ UpdateRoute(route.id, [points |-> simplifiedPoints])
                  /\ nextId' = nextId + Len(simplifiedPoints)
                  /\ statusMessage' = "Simplified route"
    /\ UNCHANGED <<clipboard, fn, input, output>>

----------------------------------------------------------------------------

Next ==
    \/ loadFromString \/ mergeDocument \/ clear \/ undo \/ redo
    \/ select \/ addToSelection \/ selectAll \/ clearSelection
    \/ copySelected \/ cutSelected \/ paste
    \/ addTrack \/ updateTrack \/ deleteTrack \/ toggleTrackEnabled \/ toggleTrackExpanded
    \/ addRoute \/ updateRoute \/ deleteRoute \/ toggleRouteEnabled
    \/ addWaypoint \/ updateWaypoint \/ deleteWaypoint \/ toggleWaypointEnabled
    \/ setModified
    \/ reverseTrackAction \/ reverseRouteAction \/ joinSelectedTracks
    \/ mergeTrackSegmentsAction \/ convertRouteToTrack \/ convertTrackToRoute
    \/ createRouteFromWaypoints \/ reorderTracks
    \/ deletePointsInBounds \/ handleSplit \/ handleDeletePoint \/ handleApply
    \/ handleDelete

Spec == Init /\ [][Next]_vars

----------------------------------------------------------------------------
(* The operations of lib/gpx/operations.ts and the box deletion applied to *)
(* arguments drawn from bounded sets.  An argument tuple is a track with a *)
(* segment id and a point index, a route, or a document with a box; the    *)
(* store is then empty.  A fourth kind of start is the split dialog opened *)
(* on a track: the store holds that track, selected, and an empty history. *)

\* All sequences over S of length 0..n.
SeqsUpTo(S, n) == UNION {[1..k -> S] : k \in 0..n}

\* A segment list of the given lengths; ids and payloads all distinct:
\* segment i has id 10 * i, its j-th point the id and the latitude 10 * i + j.
SegmentsOfLengths(lens) ==
    [i \in 1..Len(lens) |->
        Segment(10 * i, [j \in 1..lens[i] |->
                            Point(10 * i + j, 10 * i + j, 0, 100 + j, 200 + 10 * i + j)])]

InputTrack(lens) == Track(1, <<"Ride">>, 0, SegmentsOfLengths(lens))
InputRoute(len) ==
    Route(2, <<>>, 0, [j \in 1..len |-> Point(80 + j, j, 0, 100 + j, 200 + j)])

\* A run of points for the box deletion: the latitude of the j-th point is
\* lats[j], its longitude is j.
RunPoints(lats, base) == [j \in 1..Len(lats) |-> Point(base + j, lats[j], j, 100, 200 + j)]
InputBoxTrack(latss) ==
    Track(1, <<"Ride">>, 0,
          [i \in 1..Len(latss) |-> Segment(10 * i, RunPoints(latss[i], 10 * i))])
InputBoxRoute(lats) == Route(2, <<>>, 0, RunPoints(lats, 80))

\* The boxes: latitude 1 at any longitude, and latitude 1 from longitude 2 on.
InputBoxes ==
    { [south |-> 1, north |-> 1, west |-> 1, east |-> MaxRun + 1],
      [south |-> 1, north |-> 1, west |-> 2, east |-> MaxRun + 1] }

TrackInputs ==
    { [kind |-> "track", track |-> InputTrack(lens), segmentId |-> sid, pointIndex |-> idx]
      : lens \in SeqsUpTo(0..MaxSegLen, MaxSegs) \ {<<>>},
        sid \in {10 * i : i \in 1..(MaxSegs + 1)},
        idx \in (-1)..MaxSegLen }
DialogInputs ==
    { [kind |-> "dialog", track |-> InputTrack(lens)]
      : lens \in SeqsUpTo({MaxSegLen - 2, MaxSegLen}, MaxSegs) \ {<<>>} }
RouteInputs == { [kind |-> "route", route |-> InputRoute(len)] : len \in 0..MaxSegLen }
DocumentInputs ==
    { [kind |-> "document", bounds |-> b,
       doc |-> [waypoints |-> RunPoints(<<0, 1>>, 90), routes |-> <<>>,
                tracks |-> <<InputBoxTrack(latss)>>, modified |-> FALSE]]
      : latss \in SeqsUpTo(SeqsUpTo({0, 1}, MaxRun), MaxSegs), b \in InputBoxes }
    \cup
    { [kind |-> "document", bounds |-> b,
       doc |-> [waypoints |-> <<>>,
                routes |-> <<InputBoxRoute(lats),
                             Route(3, <<"Loop">>, 1, RunPoints(<<0, 1, 0>>, 70))>>,
                tracks |-> <<>>, modified |-> FALSE]]
      : lats \in SeqsUpTo({0, 1}, MaxRun), b \in InputBoxes }

\* The arguments of simplifyTrack: point lists on a patch of two longitudes
\* and three latitudes (repeated places and closed loops among them) and
\* tolerances from below 0 up.
GridPoints == { [lat |-> la, lon |-> lo] : la \in 0..2, lo \in 0..1 }
InputPoints(places) ==
    [j \in 1..Len(places) |-> Point(80 + j, places[j].lat, places[j].lon, 100, 200 + j)]
Tolerances == (-1)..2
PointsInputs ==
    { [kind |-> "points", points |-> InputPoints(places), tolerance |-> t]
      : places \in SeqsUpTo(GridPoints, MaxTrackLen), t \in Tolerances }

InitOps ==
    /\ input \in TrackInputs \cup RouteInputs \cup DocumentInputs \cup DialogInputs
                 \cup PointsInputs
    /\ fn = "none"
    /\ output = <<>>
    /\ document = IF input.kind = "dialog"
                  THEN [createEmptyDocument EXCEPT !.tracks = <<input.track>>]
                  ELSE createEmptyDocument
    /\ selection = IF input.kind = "dialog"
                   THEN <<[type |-> "track", id |-> input.track.id]>>
                   ELSE <<>>
    /\ clipboard = <<>>
    /\ past = <<>>
    /\ future = <<>>
    /\ colorIndex = 1
    /\ nextId = 100     \* above every identifier of the arguments
    /\ statusMessage = "Ready"
    /\ last = [op |-> "create", arg |-> <<>>, before |-> createEmptyDocument]
    /\ steps = 0

ApplySplitTrack ==
    /\ fn = "none"
    /\ input.kind = "track"
    /\ fn' = "splitTrack"
    /\ output' = splitTrack(input.track, input.segmentId, input.pointIndex, nextId, colorIndex)
    /\ UNCHANGED <<input, document, selection, clipboard, past, future, colorIndex, nextId,
                   statusMessage, last, steps>>

\* joinTracks applied to the two tracks a successful split returned.
ApplyJoinTracks ==
    /\ fn = "splitTrack"
    /\ output.ok
    /\ fn' = "joinTracks"
    /\ output' = [first |-> output.first, second |-> output.second,
                  joined |-> joinTracks(output.first, output.second, output.nextId)]
    /\ UNCHANGED <<input, document, selection, clipboard, past, future, colorIndex, nextId,
                   statusMessage, last, steps>>

\* reverseTrack applied to the track, and again to its result.
ApplyReverseTrack ==
    /\ input.kind = "track"
    /\ \/ fn = "none" /\ fn' = "reverseTrack" /\ output' = reverseTrack(input.track)
       \/ fn = "reverseTrack" /\ fn' = "reverseTrack twice" /\ output' = reverseTrack(output)
    /\ UNCHANGED <<input, document, selection, clipboard, past, future, colorIndex, nextId,
                   statusMessage, last, steps>>

ApplyReverseRoute ==
    /\ input.kind = "route"
    /\ \/ fn = "none" /\ fn' = "reverseRoute" /\ output' = reverseRoute(input.route)
       \/ fn = "reverseRoute" /\ fn' = "reverseRoute twice" /\ output' = reverseRoute(output)
    /\ UNCHANGED <<input, document, selection, clipboard, past, future, colorIndex, nextId,
                   statusMessage, last, steps>>

ApplyDeletePointsInBounds ==
    /\ fn = "none"
    /\ input.kind = "document"
    /\ fn' = "deletePointsInBounds"
    /\ output' = DeletePointsInBounds(input.doc, input.bounds, DeleteEverything, nextId)
    /\ UNCHANGED <<input, document, selection, clipboard, past, future, colorIndex, nextId,
                   statusMessage, last, steps>>

\* simplifyTrack applied to the points, and again to its result.
ApplySimplifyTrack ==
    /\ fn = "none"
    /\ input.kind = "points"
    /\ fn' = "simplifyTrack"
    /\ output' = LET once == simplifyTrack(input.points, input.tolerance)
                 IN [once |-> once,
                     twice |-> IF once.ok THEN simplifyTrack(once.points, input.tolerance)
                               ELSE once]
    /\ UNCHANGED <<input, document, selection, clipboard, past, future, colorIndex, nextId,
                   statusMessage, last, steps>>

NextOps ==
    \/ ApplySplitTrack \/ ApplyJoinTracks \/ ApplyReverseTrack \/ ApplyReverseRoute
    \/ ApplyDeletePointsInBounds \/ ApplySimplifyTrack
    \/ handleSplit \/ select \/ undo \/ redo

SpecOps == InitOps /\ [][NextOps]_vars

----------------------------------------------------------------------------
(* Properties of the undo/redo history (checked under Spec).               *)

\* The store actions that call pushToHistory() exactly once.
RecordedOps ==
    { "mergeDocument", "clear", "cutSelected", "paste",
      "addTrack", "updateTrack", "deleteTrack", "addRoute", "updateRoute", "deleteRoute",
      "addWaypoint", "updateWaypoint", "deleteWaypoint",
      "reverseTrack", "reverseRoute", "joinSelectedTracks", "mergeTrackSegmentsAction",
      "convertRouteToTrack", "convertTrackToRoute", "createRouteFromWaypoints",
      "reorderTracks", "deletePointsInBounds", "deleteTrackPoint", "deleteRoutePoint" }

\* The store operations that navigate the history instead of editing the document.
HistoryOps == {"undo", "redo"}

\* The last operation was a recorded mutation that reached its pushToHistory()
\* (cutSelected returns before it when nothing selected exists).
RecordedMutationRan ==
    /\ last.op \in RecordedOps
    /\ last.op = "cutSelected" => document # last.before

Here == HistoryView(document, selection, past, future)

\* C1: after a recorded mutation of D into D', an immediately following undo()
\* makes the document equal to D and a redo() after that makes it equal to D'.
C1_UndoRedoRestores ==
    RecordedMutationRan =>
        /\ UndoOf(Here).document = last.before
        /\ RedoOf(UndoOf(Here)).document = document

\* The same statement for every recorded mutation but clear(), which empties the
\* history after recording: this part holds.
C1_ExceptClear ==
    (RecordedMutationRan /\ last.op # "clear") =>
        /\ UndoOf(Here).document = last.before
        /\ RedoOf(UndoOf(Here)).document = document

\* C2: every store operation that changes the document (undo and redo aside)
\* leaves the document it started from on top of past.
C2_EveryChangePushes ==
    [][(document' # document /\ last'.op \notin HistoryOps /\ last'.op # "handleSplit")
          => (past' # <<>> /\ past'[Len(past')] = document)]_vars

\* C3: right after undo(), a store operation that changes the document (other
\* than undo and redo themselves) leaves future empty.
C3_ChangeAfterUndoClearsFuture ==
    [][(last.op = "undo" /\ last'.op \notin HistoryOps /\ document' # document)
          => future' = <<>>]_vars

\* The step is one recorded mutation reaching its pushToHistory().
PushingStep ==
    /\ steps' = steps + 1
    /\ last'.op \in RecordedOps \ {"clear"}
    /\ last'.op = "cutSelected" => ItemsToCopy(document, selection) # <<>>

\* C4: past never holds more than maxHistory snapshots; a push on a full past
\* drops the oldest snapshot and keeps the others, in order, under the new one;
\* undo and redo keep the bound.
C4_PastBounded ==
    /\ [](Len(past) <= maxHistory)
    /\ [][(PushingStep /\ Len(past) = maxHistory)
             => past' = Append(Tail(past), document)]_vars

\* Three waypoints drawn one after the other on the empty document: the third
\* push found past full and evicted the snapshot of the empty document.
C4_Witness ==
    /\ steps = maxHistory + 1
    /\ last.op = "addWaypoint"
    /\ Len(document.waypoints) = maxHistory + 1
    /\ nextId = maxHistory + 2
    /\ Len(past) = maxHistory
    /\ past[1] # createEmptyDocument

----------------------------------------------------------------------------
(* Properties of split, join and reverse (checked under SpecOps).          *)

SegmentIds(track) == {track.segments[k].id : k \in 1..Len(track.segments)}

\* The position (from 1) of the segment of the track with the given id.
SegmentPosition(track, segmentId) ==
    CHOOSE k \in 1..Len(track.segments) : track.segments[k].id = segmentId

\* The arguments the contract of splitTrack rejects.
InvalidSplit(track, segmentId, pointIndex) ==
    \/ segmentId \notin SegmentIds(track)
    \/ pointIndex <= 0
    \/ pointIndex >= Len(track.segments[SegmentPosition(track, segmentId)].points) - 1

\* The step is handleSplit of the split dialog with arguments splitTrack rejects.
FailingDialogSplit ==
    /\ steps' = steps + 1
    /\ last'.op = "handleSplit"
    /\ InvalidSplit(Find(document.tracks, last'.arg.track), last'.arg.segment, last'.arg.index)

C6_SplitShape ==
    (fn = "splitTrack" /\ ~InvalidSplit(input.track, input.segmentId, input.pointIndex)) =>
        LET track == input.track
            k == SegmentPosition(track, input.segmentId)
            i == input.pointIndex
            points == track.segments[k].points
            first == output.first.segments
            second == output.second.segments
        IN /\ output.ok
           /\ Len(first) = k
           /\ SubSeq(first, 1, k - 1) = SubSeq(track.segments, 1, k - 1)
           /\ Payloads(first[k].points) = Payloads(SubSeq(points, 1, i + 1))
           /\ Len(second) = Len(track.segments) - k + 1
           /\ Payloads(second[1].points) = Payloads(SubSeq(points, i + 1, Len(points)))
           /\ SubSeq(second, 2, Len(second)) = SubSeq(track.segments, k + 1, Len(track.segments))
           /\ Payload(first[k].points[Len(first[k].points)]) = Payload(points[i + 1])
           /\ Payload(second[1].points[1]) = Payload(points[i + 1])

\* A single-segment track of five points split at index 2: three points each.
C6_Witness ==
    /\ fn = "splitTrack"
    /\ output.ok
    /\ Len(input.track.segments) = 1
    /\ Len(input.track.segments[1].points) = 5
    /\ input.pointIndex = 2
    /\ Len(TrackPoints(output.first)) = 3
    /\ Len(TrackPoints(output.second)) = 3

\* C7 as claimed: joining the two results of a split gives back the flattened
\* payload sequence of the original track.
C7_JoinOfSplitIsOriginal ==
    fn = "joinTracks" =>
        Payloads(TrackPoints(output.joined)) = Payloads(TrackPoints(input.track))

\* The position (from 1) of the split point in the flattened track.
FlatSplitPosition ==
    LET k == SegmentPosition(input.track, input.segmentId) IN
    SumSeq([j \in 1..(k - 1) |-> Len(input.track.segments[j].points)]) + input.pointIndex + 1

\* C7: joining the two results of a split gives the flattened payload sequence
\* of the original track with the split point twice in succession (one point
\* more than the original).
C7_JoinOfSplitRepeatsSplitPoint ==
    fn = "joinTracks" =>
        LET original == Payloads(TrackPoints(input.track))
            g == FlatSplitPosition
        IN Payloads(TrackPoints(output.joined)) =
               SubSeq(original, 1, g) \o SubSeq(original, g, Len(original))

\* A two-segment track split inside its second segment and joined again.
C7_Witness ==
    /\ fn = "joinTracks"
    /\ Len(input.track.segments) = 2
    /\ SegmentPosition(input.track, input.segmentId) = 2
    /\ Len(input.track.segments[1].points) > 0
    /\ Len(TrackPoints(output.joined)) = Len(TrackPoints(input.track)) + 1

\* s read backwards is r.
IsReverseOf(r, s) == Len(r) = Len(s) /\ \A i \in 1..Len(s) : r[i] = s[Len(s) + 1 - i]

\* C8: reverseTrack gives the segments in reverse order, each with its points
\* in reverse order, so the flattened points are those of the track read
\* backwards; reversing twice gives back the track itself, identifiers
\* included; the same for reverseRoute.
C8_ReverseTwiceRestores ==
    /\ fn = "reverseTrack" =>
          /\ IsReverseOf(TrackPoints(output), TrackPoints(input.track))
          /\ Len(output.segments) = Len(input.track.segments)
          /\ \A k \in 1..Len(output.segments) :
                LET seg == input.track.segments[Len(output.segments) + 1 - k] IN
                /\ output.segments[k].id = seg.id
                /\ IsReverseOf(output.segments[k].points, seg.points)
    /\ fn = "reverseTrack twice" => output = input.track
    /\ fn = "reverseRoute" => IsReverseOf(output.points, input.route.points)
    /\ fn = "reverseRoute twice" => output = input.route

\* A track of two segments of different lengths reversed twice.
C8_Witness ==
    /\ fn = "reverseTrack twice"
    /\ Len(input.track.segments) = 2
    /\ Len(input.track.segments[1].points) = 3
    /\ Len(input.track.segments[2].points) = 2
    /\ output = input.track

----------------------------------------------------------------------------
(* Properties of point deletion.                                           *)

Outside(points, bounds, j) == ~pointInBounds(bounds, points[j].lat, points[j].lon)

\* The positions where a run of consecutive survivors starts.
RunStarts(points, bounds) ==
    { a \in 1..Len(points) :
        Outside(points, bounds, a) /\ (a = 1 \/ ~Outside(points, bounds, a - 1)) }

\* The position where the run starting at a ends.
RunEnd(points, bounds, a) ==
    CHOOSE b \in a..Len(points) :
        /\ \A j \in a..b : Outside(points, bounds, j)
        /\ b = Len(points) \/ ~Outside(points, bounds, b + 1)

\* The maximal runs of consecutive points outside the box, in order.
MaximalRuns(points, bounds) ==
    LET starts == RunStarts(points, bounds)
        NthStart(k) == CHOOSE a \in starts : Cardinality({x \in starts : x < a}) = k - 1
    IN [k \in 1..Cardinality(starts) |->
           SubSeq(points, NthStart(k), RunEnd(points, bounds, NthStart(k)))]

PointLists(containers) == [k \in 1..Len(containers) |-> containers[k].points]
DistinctIds(items) == Cardinality({items[k].id : k \in 1..Len(items)}) = Len(items)

\* The document after is the document before with every route replaced by one
\* route per maximal run of consecutive points outside the box and every track
\* segment by one segment of the same track per such run, in order; routes,
\* segments and tracks without a surviving point are gone; the resulting
\* routes and the segments of a track are distinct items.
KeepsMaximalRuns(before, after, bounds) ==
    LET kept == SelectSeq(before.tracks,
                          LAMBDA t : \E j \in 1..Len(TrackPoints(t)) :
                                         Outside(TrackPoints(t), bounds, j))
    IN /\ PointLists(after.routes) =
              Flatten([r \in 1..Len(before.routes) |->
                          MaximalRuns(before.routes[r].points, bounds)])
       /\ DistinctIds(after.routes)
       /\ Len(after.tracks) = Len(kept)
       /\ \A k \in 1..Len(kept) :
             /\ after.tracks[k].id = kept[k].id
             /\ PointLists(after.tracks[k].segments) =
                    Flatten([g \in 1..Len(kept[k].segments) |->
                                MaximalRuns(kept[k].segments[g].points, bounds)])
             /\ DistinctIds(after.tracks[k].segments)

\* C9: deletePointsInBounds removes exactly the points inside the box from every
\* route and track segment, keeps the survivors in order grouped into their
\* maximal runs, one sibling route or segment per run, and drops every route,
\* segment and track that has no surviving point.
C9_BoxDeletionKeepsMaximalRuns ==
    fn = "deletePointsInBounds" => KeepsMaximalRuns(input.doc, output.doc, input.bounds)

HasEmptySegment(doc) ==
    \E t \in 1..Len(doc.tracks) :
        \E g \in 1..Len(doc.tracks[t].segments) : doc.tracks[t].segments[g].points = <<>>

\* The same statement for the documents in which no track segment is empty
\* before the deletion: this part holds.
C9_WithoutEmptySegments ==
    (fn = "deletePointsInBounds" /\ ~HasEmptySegment(input.doc)) =>
        KeepsMaximalRuns(input.doc, output.doc, input.bounds)

\* C10: deleting one interior point of a track segment with deleteTrackPoint, or
\* of a route from the points panel, splits the segment or route at that point
\* into two runs, as the box deletion does.
C10_PointDeletionSplits ==
    /\ last.op = "deleteTrackPoint" =>
          LET track == Find(last.before.tracks, last.arg.track)
              k == SegmentPosition(track, last.arg.segment)
              points == track.segments[k].points
              i == last.arg.index
          IN (0 < i /\ i < Len(points) - 1) =>
                 PointLists(Find(document.tracks, track.id).segments) =
                     PointLists(SubSeq(track.segments, 1, k - 1))
                     \o <<SubSeq(points, 1, i), SubSeq(points, i + 2, Len(points))>>
                     \o PointLists(SubSeq(track.segments, k + 1, Len(track.segments)))
    /\ last.op = "deleteRoutePoint" =>
          LET k == FindIndex(last.before.routes, LAMBDA r : r.id = last.arg.route) + 1
              points == last.before.routes[k].points
              i == last.arg.index
          IN (0 < i /\ i < Len(points) - 1) =>
                 PointLists(document.routes) =
                     PointLists(SubSeq(last.before.routes, 1, k - 1))
                     \o <<SubSeq(points, 1, i), SubSeq(points, i + 2, Len(points))>>
                     \o PointLists(SubSeq(last.before.routes, k + 1, Len(last.before.routes)))

----------------------------------------------------------------------------
(* Identifiers.                                                            *)

\* The identifiers of the points an item holds: a waypoint is its own point, a
\* route holds its points, a track the points of its segments.
PointIdsOfItem(item) ==
    IF "segments" \in DOMAIN item THEN Ids(TrackPoints(item))
    ELSE IF "points" \in DOMAIN item THEN Ids(item.points)
    ELSE {item.id}

PointIdsOfItems(items) == UNION {PointIdsOfItem(items[k]) : k \in 1..Len(items)}

PointIdsOf(doc) ==
    PointIdsOfItems(doc.waypoints) \cup PointIdsOfItems(doc.routes)
        \cup PointIdsOfItems(doc.tracks)

Range(items) == {items[k] : k \in 1..Len(items)}

\* The points of the tracks and routes the last operation made or rewrote.
ResultPointIds ==
    PointIdsOfItems(SelectSeq(document.tracks,
                              LAMBDA t : t \notin Range(last.before.tracks)))
    \cup PointIdsOfItems(SelectSeq(document.routes,
                                   LAMBDA r : r \notin Range(last.before.routes)))
    \cup PointIdsOfItems(SelectSeq(document.waypoints,
                                   LAMBDA w : w \notin Range(last.before.waypoints)))

\* Every identifier of the document, container by container.
IdSkeleton(doc) ==
    [waypoints |-> [k \in 1..Len(doc.waypoints) |-> doc.waypoints[k].id],
     routes    |-> [k \in 1..Len(doc.routes) |->
                      [id |-> doc.routes[k].id,
                       points |-> [i \in 1..Len(doc.routes[k].points) |->
                                     doc.routes[k].points[i].id]]],
     tracks    |-> [k \in 1..Len(doc.tracks) |->
                      [id |-> doc.tracks[k].id,
                       segments |-> [j \in 1..Len(doc.tracks[k].segments) |->
                          [id |-> doc.tracks[k].segments[j].id,
                           points |-> [i \in 1..Len(doc.tracks[k].segments[j].points) |->
                                         doc.tracks[k].segments[j].points[i].id]]]]]]

StructuralOps ==
    {"handleSplit", "joinSelectedTracks", "convertRouteToTrack", "convertTrackToRoute",
     "handleApply", "paste"}

FieldOps ==
    {"updateTrack", "updateRoute", "updateWaypoint",
     "toggleTrackEnabled", "toggleRouteEnabled", "toggleWaypointEnabled"}

FreshResultAfter(ops) ==
    last.op \in ops =>
        ResultPointIds \cap (PointIdsOf(last.before) \cup PointIdsOfItems(clipboard)) = {}

FieldEditsKeepIds == last.op \in FieldOps => IdSkeleton(document) = IdSkeleton(last.before)

\* C11: after a split, join, conversion, simplification or paste no point of
\* the tracks and routes it made carries the identifier of a point of the
\* document (or clipboard) it was made from, and after a rename or a toggle
\* every identifier of the document is where it was.
C11_StructuralEditsMintFreshIds == FreshResultAfter(StructuralOps) /\ FieldEditsKeepIds

\* The same statement without the join of tracks, which keeps the segments of
\* both tracks, and the split of a track, which keeps the segments around the
\* one it splits.
C11_ExceptJoinAndSplit ==
    FreshResultAfter(StructuralOps \ {"joinSelectedTracks", "handleSplit"}) /\ FieldEditsKeepIds

\* All ids of the document in one sequence: items, segments, points.
RECURSIVE IdsOfSegments(_)
IdsOfSegments(segments) ==
    IF segments = <<>> THEN <<>>
    ELSE <<Head(segments).id>> \o Map(Head(segments).points, LAMBDA p : p.id)
            \o IdsOfSegments(Tail(segments))

RECURSIVE IdsOfItems(_)
IdsOfItems(items) ==
    IF items = <<>> THEN <<>>
    ELSE LET item == Head(items) IN
         <<item.id>>
            \o (IF "segments" \in DOMAIN item THEN IdsOfSegments(item.segments)
                ELSE IF "points" \in DOMAIN item THEN Map(item.points, LAMBDA p : p.id)
                ELSE <<>>)
            \o IdsOfItems(Tail(items))

AllIds(doc) == IdsOfItems(doc.waypoints) \o IdsOfItems(doc.routes) \o IdsOfItems(doc.tracks)

UniqueIds(doc) == Cardinality(Range(AllIds(doc))) = Len(AllIds(doc))

\* C12: in every reachable state of the store the ids of all tracks, routes,
\* waypoints, segments and points of the document are pairwise distinct, so no
\* segment or point is held by two containers.
C12_IdsPairwiseDistinct == UniqueIds(document)

\* A selection that names one item twice.
DuplicateSelection == Cardinality(Range(selection)) < Len(selection)

\* The ids stay distinct over every step that is not a join under a selection
\* naming an item twice, provided the history holds only such documents.
C12_DistinctUnlessJoinOfDuplicates ==
    [][(/\ UniqueIds(document)
        /\ \A k \in 1..Len(past) : UniqueIds(past[k])
        /\ \A k \in 1..Len(future) : UniqueIds(future[k])
        /\ ~(last'.op = "joinSelectedTracks" /\ DuplicateSelection))
       => UniqueIds(document')]_vars

----------------------------------------------------------------------------
(* Loading a text that does not parse.                                     *)

FailedLoad(l) == l.op = "loadFromString" /\ (l.arg.parsererror \/ l.arg.gpx = <<>>)

\* C13: a loadFromString whose text is not XML or holds no gpx element throws
\* the parser's error to its caller and leaves the document, the selection,
\* the undo and redo history and the palette colour cursor as they were.
C13_FailedLoadChangesNothing ==
    [][FailedLoad(last') =>
          /\ last'.thrown \in {"XML Parse Error", "Invalid GPX file: no <gpx> element found"}
          /\ UNCHANGED <<document, selection, past, future, colorIndex>>]_vars

\* A load has failed on a store with a document, a selection, a history and an
\* advanced colour cursor.
C13_Witness ==
    /\ FailedLoad(last)
    /\ last.thrown # ""
    /\ document.tracks # <<>>
    /\ selection # <<>>
    /\ past # <<>>
    /\ colorIndex > 0

----------------------------------------------------------------------------
(* XML as DOMParser presents it and as the exporters write it.  An element *)
(* is its tag, its lat and lon attributes (each null or a text), its text  *)
(* and its child elements; a null or undefined value is the empty tuple    *)
(* and a present value v is <<v>>.  escapeXml and the parser's unescaping  *)
(* cancel on every string and are left out.                                *)

Element(tag, attrs, text, children) ==
    [tag |-> tag, attrs |-> attrs, text |-> text, children |-> children]

NoAttrs == [lat |-> <<>>, lon |-> <<>>]
Leaf(tag, text) == Element(tag, NoAttrs, text, <<>>)

\* All elements below el in document order.
RECURSIVE Descendants(_)
RECURSIVE DescendantsOfAll(_)
Descendants(el) == DescendantsOfAll(el.children)
DescendantsOfAll(els) ==
    IF els = <<>> THEN <<>>
    ELSE <<Head(els)>> \o Descendants(Head(els)) \o DescendantsOfAll(Tail(els))

\* The first element of a list, null (the empty tuple) for the empty list.
First(els) == IF els = <<>> THEN <<>> ELSE <<Head(els)>>

\* el.querySelectorAll(tag), el.querySelector(tag) (null when nothing matches)
\* and el.querySelectorAll(':scope > tag').
querySelectorAll(el, tag) == SelectSeq(Descendants(el), LAMBDA d : d.tag = tag)
querySelector(el, tag) == First(querySelectorAll(el, tag))
ScopeChildren(el, tag) == SelectSeq(el.children, LAMBDA d : d.tag = tag)

\* el?.textContent of a possibly null element whose content is text.
textContent(found) == IF found = <<>> THEN <<>> ELSE <<found[1].text>>

\* JavaScript truthiness of an optional string and value || ''.
TruthyText(o) == o # <<>> /\ o[1] # ""
OrEmpty(o) == IF o = <<>> THEN "" ELSE o[1]

\* if (el?.textContent) field = el.textContent
TextField(el, tag) ==
    LET text == textContent(querySelector(el, tag))
    IN IF TruthyText(text) THEN text ELSE <<>>

\* Numbers are written in decimal and read back by parseFloat, which reads the
\* longest numeric prefix of a text and gives NaN (here the empty tuple) when
\* there is none.
Numerals == <<"0", "1", "2", "3", "4", "5", "6", "7", "8", "9">>
NumberToString(n) == Numerals[n + 1]
NumericPrefix(text) ==
    IF text = "4,5" THEN "4" ELSE IF text = "7abc" THEN "7" ELSE text
parseFloat(text) ==
    LET prefix == NumericPrefix(text)
    IN IF \E k \in 1..Len(Numerals) : Numerals[k] = prefix
       THEN <<(CHOOSE k \in 1..Len(Numerals) : Numerals[k] = prefix) - 1>>
       ELSE <<>>
isNaN(number) == number = <<>>

----------------------------------------------------------------------------
(* lib/gpx/exporter.ts.  Of the optional fields the model keeps ele, time, *)
(* name and desc; the other text fields are written like desc.             *)

When(condition, elements) == IF condition THEN elements ELSE <<>>

\* exportWaypoint(wpt, tagName, indent)
exportWaypoint(wpt, tagName) ==
    Element(tagName, [lat |-> <<NumberToString(wpt.lat)>>, lon |-> <<NumberToString(wpt.lon)>>], "",
            When(wpt.ele # <<>>, <<Leaf("ele", NumberToString(OrEmpty(wpt.ele)))>>)
         \o When(TruthyText(wpt.time), <<Leaf("time", OrEmpty(wpt.time))>>)
         \o When(TruthyText(wpt.name), <<Leaf("name", OrEmpty(wpt.name))>>)
         \o When(TruthyText(wpt.desc), <<Leaf("desc", OrEmpty(wpt.desc))>>))

ExportPoints(points, tagName) ==
    Map(Filter(points, LAMBDA pt : pt.enabled), LAMBDA pt : exportWaypoint(pt, tagName))

\* exportRoute(rte, indent)
exportRoute(rte) ==
    Element("rte", NoAttrs, "",
            When(TruthyText(rte.name), <<Leaf("name", OrEmpty(rte.name))>>)
         \o When(TruthyText(rte.desc), <<Leaf("desc", OrEmpty(rte.desc))>>)
         \o ExportPoints(rte.points, "rtept"))

\* An exportTrack that writes the segments whatever their enabled flag.
exportTrackAllSegments(trk) ==
    Element("trk", NoAttrs, "",
            When(TruthyText(trk.name), <<Leaf("name", OrEmpty(trk.name))>>)
         \o When(TruthyText(trk.desc), <<Leaf("desc", OrEmpty(trk.desc))>>)
         \o Map(Filter(trk.segments, LAMBDA seg : Len(seg.points) > 0),
                LAMBDA seg : Element("trkseg", NoAttrs, "",
                                     ExportPoints(seg.points, "trkpt"))))

\* exportTrack(trk, indent)
exportTrack(trk) ==
    Element("trk", NoAttrs, "",
            When(TruthyText(trk.name), <<Leaf("name", OrEmpty(trk.name))>>)
         \o When(TruthyText(trk.desc), <<Leaf("desc", OrEmpty(trk.desc))>>)
         \o Map(Filter(trk.segments, LAMBDA seg : seg.enabled /\ Len(seg.points) > 0),
                LAMBDA seg : Element("trkseg", NoAttrs, "",
                                     ExportPoints(seg.points, "trkpt"))))

\* exportMetadata(metadata, indent): name, desc, author with its name, time.
exportMetadata(metadata) ==
       When(TruthyText(metadata.name), <<Leaf("name", OrEmpty(metadata.name))>>)
    \o When(TruthyText(metadata.desc), <<Leaf("desc", OrEmpty(metadata.desc))>>)
    \o When(metadata.author # <<>>,
            <<Element("author", NoAttrs, "",
                      When(TruthyText(metadata.author[1].name),
                           <<Leaf("name", OrEmpty(metadata.author[1].name))>>))>>)
    \o When(TruthyText(metadata.time), <<Leaf("time", OrEmpty(metadata.time))>>)

\* exportGPX(doc): the gpx element of the text it returns.
exportGPX(doc) ==
    Element("gpx", NoAttrs, "",
            When(doc.metadata # <<>>,
                 <<Element("metadata", NoAttrs, "", exportMetadata(doc.metadata[1]))>>)
         \o Map(Filter(doc.waypoints, LAMBDA wpt : wpt.enabled),
                LAMBDA wpt : exportWaypoint(wpt, "wpt"))
         \o Map(Filter(doc.routes, LAMBDA rte : rte.enabled), exportRoute)
         \o Map(Filter(doc.tracks, LAMBDA trk : trk.enabled), exportTrack))

----------------------------------------------------------------------------
(* lib/gpx/parser.ts on elements.  An operator that calls generateId()     *)
(* takes the counter n; the calls a list spends are counted beside it.     *)

\* parseMetadata(metadataEl)
parseMetadata(found) ==
    IF found = <<>> THEN <<>>
    ELSE LET metadataEl == found[1]
             authorEl == querySelector(metadataEl, "author")
         IN << [name   |-> TextField(metadataEl, "name"),
                desc   |-> TextField(metadataEl, "desc"),
                time   |-> TextField(metadataEl, "time"),
                author |-> IF authorEl = <<>> THEN <<>>
                           ELSE <<[name |-> TextField(authorEl[1], "name")]>>] >>

\* parseWaypoint(wpt): null (the empty tuple) when lat or lon is not a number;
\* children with other tags than the known fields are not looked at.
parseWaypointElement(wpt, id) ==
    LET lat == parseFloat(OrEmpty(wpt.attrs.lat))
        lon == parseFloat(OrEmpty(wpt.attrs.lon))
        ele == textContent(querySelector(wpt, "ele"))
    IN IF isNaN(lat) \/ isNaN(lon) THEN <<>>
       ELSE << [id |-> id, lat |-> lat[1], lon |-> lon[1], enabled |-> TRUE,
                ele  |-> IF TruthyText(ele) THEN parseFloat(ele[1]) ELSE <<>>,
                time |-> TextField(wpt, "time"),
                name |-> TextField(wpt, "name"),
                desc |-> TextField(wpt, "desc"),
                extensions |-> <<>>] >>

\* The elements parseWaypoint does not return null for.
ValidPointElements(els) == Filter(els, LAMBDA el : parseWaypointElement(el, 0) # <<>>)

\* elements.forEach(el => { const p = parseWaypoint(el); if (p) list.push(p) })
\* with the first identifier n: one generateId() per point pushed.
parseWaypointElements(els, n) ==
    LET valid == ValidPointElements(els)
    IN [i \in 1..Len(valid) |-> parseWaypointElement(valid[i], n + i - 1)[1]]

\* generateId() calls spent on one rte, one trkseg, one trk element.
RteIdCount(rte) == 1 + Len(ValidPointElements(querySelectorAll(rte, "rtept")))
TrksegIdCount(trkseg) == 1 + Len(ValidPointElements(querySelectorAll(trkseg, "trkpt")))
TrkElementIdCount(trk) == 1 + SumSeq(Map(querySelectorAll(trk, "trkseg"), TrksegIdCount))

\* parseRoutes(gpx) over the rte elements: every route is pushed.
parseRouteElements(rtes, n, ci) ==
    [i \in 1..Len(rtes) |->
        LET base == n + SumSeq(Map(SubSeq(rtes, 1, i - 1), RteIdCount))
        IN [id |-> base, color |-> TrackColor(ci + i - 1), enabled |-> TRUE,
            points |-> parseWaypointElements(querySelectorAll(rtes[i], "rtept"), base + 1),
            name |-> TextField(rtes[i], "name"), desc |-> TextField(rtes[i], "desc")]]

\* A parser of trkseg elements that pushes the segments without points too.
parseSegmentElementsKeepingEmpty(trksegs, n) ==
    [i \in 1..Len(trksegs) |->
        LET base == n + SumSeq(Map(SubSeq(trksegs, 1, i - 1), TrksegIdCount))
        IN [id |-> base, enabled |-> TRUE,
            points |-> parseWaypointElements(querySelectorAll(trksegs[i], "trkpt"), base + 1)]]

\* The trkseg elements of a trk: a segment without points is not pushed.
parseSegmentElements(trksegs, n) ==
    LET all == [i \in 1..Len(trksegs) |->
                   LET base == n + SumSeq(Map(SubSeq(trksegs, 1, i - 1), TrksegIdCount))
                   IN [id |-> base, enabled |-> TRUE,
                       points |-> parseWaypointElements(querySelectorAll(trksegs[i], "trkpt"),
                                                        base + 1)]]
    IN Filter(all, LAMBDA segment : Len(segment.points) > 0)

\* parseTracks(gpx) over the trk elements: a track without segments is not pushed.
parseTrackElements(trks, n, ci) ==
    LET all == [i \in 1..Len(trks) |->
                   LET base == n + SumSeq(Map(SubSeq(trks, 1, i - 1), TrkElementIdCount))
                   IN [id |-> base, color |-> TrackColor(ci + i - 1), enabled |-> TRUE,
                       expanded |-> TRUE,
                       segments |-> parseSegmentElements(querySelectorAll(trks[i], "trkseg"),
                                                         base + 1),
                       name |-> TextField(trks[i], "name"), desc |-> TextField(trks[i], "desc")]]
    IN Filter(all, LAMBDA track : Len(track.segments) > 0)

\* The document parseGPX returns for a gpx element: resetColorIndex(), then
\* metadata, waypoints, routes and tracks in that order.
parseGpxElement(gpx, n) ==
    LET wpts == ScopeChildren(gpx, "wpt")
        rtes == ScopeChildren(gpx, "rte")
        trks == ScopeChildren(gpx, "trk")
        n1 == n + Len(ValidPointElements(wpts))
        n2 == n1 + SumSeq(Map(rtes, RteIdCount))
    IN [metadata  |-> parseMetadata(querySelector(gpx, "metadata")),
        waypoints |-> parseWaypointElements(wpts, n),
        routes    |-> parseRouteElements(rtes, n1, 0),
        tracks    |-> parseTrackElements(trks, n2, Len(rtes)),
        modified  |-> FALSE]

GpxElementIdCount(gpx) ==
    Len(ValidPointElements(ScopeChildren(gpx, "wpt")))
        + SumSeq(Map(ScopeChildren(gpx, "rte"), RteIdCount))
        + SumSeq(Map(ScopeChildren(gpx, "trk"), TrkElementIdCount))

\* parseGPX(xmlString) on the elements of the text.
parseGPXElements(xmlString, n, ci) ==
    IF xmlString.parsererror
    THEN [ok |-> FALSE, error |-> "XML Parse Error", nextId |-> n, colorIndex |-> ci]
    ELSE IF xmlString.gpx = <<>>
    THEN [ok |-> FALSE, error |-> "Invalid GPX file: no <gpx> element found",
          nextId |-> n, colorIndex |-> ci]
    ELSE [ok |-> TRUE, error |-> "",
          doc |-> parseGpxElement(xmlString.gpx[1], n),
          nextId |-> n + GpxElementIdCount(xmlString.gpx[1]),
          colorIndex |-> Len(ScopeChildren(xmlString.gpx[1], "rte"))
                            + Len(ScopeChildren(xmlString.gpx[1], "trk"))]

----------------------------------------------------------------------------
(* lib/formats/kml.ts.  The text of a coordinates element is kept as its   *)
(* whitespace-separated lines, each as its comma-separated parts; the text *)
(* of a gx:coord element as its whitespace-separated parts.                *)

\* `${pt.lon},${pt.lat}${pt.ele !== undefined ? ',' + pt.ele : ''}`
CoordinateParts(pt) ==
    <<NumberToString(pt.lon), NumberToString(pt.lat)>>
        \o When(pt.ele # <<>>, <<NumberToString(OrEmpty(pt.ele))>>)

PlacemarkHeader(item) ==
       When(TruthyText(item.name), <<Leaf("name", OrEmpty(item.name))>>)
    \o When(TruthyText(item.desc), <<Leaf("description", OrEmpty(item.desc))>>)

LineStringOf(points) ==
    Element("LineString", NoAttrs, "",
            <<Leaf("tessellate", "1"), Leaf("coordinates", Map(points, CoordinateParts))>>)

\* The Placemark of a waypoint, of a route and of a track.
WaypointPlacemark(wpt) ==
    Element("Placemark", NoAttrs, "",
            PlacemarkHeader(wpt)
         \o <<Element("Point", NoAttrs, "", <<Leaf("coordinates", <<CoordinateParts(wpt)>>)>>)>>)

RoutePlacemark(rte) ==
    Element("Placemark", NoAttrs, "",
            PlacemarkHeader(rte)
         \o <<Leaf("Style", ""), LineStringOf(Filter(rte.points, LAMBDA pt : pt.enabled))>>)

\* A track Placemark that takes the points of all segments, disabled or not.
TrackPlacemarkAllSegments(trk) ==
    LET allPoints == Flatten(Map(trk.segments,
                                 LAMBDA sg : Filter(sg.points, LAMBDA pt : pt.enabled)))
        hasTime == Some(allPoints, LAMBDA pt : TruthyText(pt.time))
    IN Element("Placemark", NoAttrs, "",
               PlacemarkHeader(trk)
            \o <<Leaf("Style", "")>>
            \o <<IF hasTime
                 THEN Element("gx:Track", NoAttrs, "",
                              Map(allPoints, LAMBDA pt :
                                    Leaf("when", IF TruthyText(pt.time) THEN pt.time[1] ELSE ""))
                           \o Map(allPoints, LAMBDA pt : Leaf("gx:coord", CoordinateParts(pt))))
                 ELSE LineStringOf(allPoints)>>)

TrackPlacemark(trk) ==
    LET allPoints == Flatten(Map(Filter(trk.segments, LAMBDA sg : sg.enabled),
                                 LAMBDA sg : Filter(sg.points, LAMBDA pt : pt.enabled)))
        hasTime == Some(allPoints, LAMBDA pt : TruthyText(pt.time))
    IN Element("Placemark", NoAttrs, "",
               PlacemarkHeader(trk)
            \o <<Leaf("Style", "")>>
            \o <<IF hasTime
                 THEN Element("gx:Track", NoAttrs, "",
                              Map(allPoints, LAMBDA pt :
                                    Leaf("when", IF TruthyText(pt.time) THEN pt.time[1] ELSE ""))
                           \o Map(allPoints, LAMBDA pt : Leaf("gx:coord", CoordinateParts(pt))))
                 ELSE LineStringOf(allPoints)>>)

\* exportKML(doc): the kml element of the text it returns.
exportKML(doc) ==
    Element("kml", NoAttrs, "",
            <<Element("Document", NoAttrs, "",
                 When(doc.metadata # <<>> /\ TruthyText(doc.metadata[1].name),
                      <<Leaf("name", OrEmpty(doc.metadata[1].name))>>)
              \o When(doc.metadata # <<>> /\ TruthyText(doc.metadata[1].desc),
                      <<Leaf("description", OrEmpty(doc.metadata[1].desc))>>)
              \o Map(Filter(doc.waypoints, LAMBDA wpt : wpt.enabled), WaypointPlacemark)
              \o Map(Filter(doc.routes, LAMBDA rte : rte.enabled), RoutePlacemark)
              \o Map(Filter(doc.tracks, LAMBDA trk : trk.enabled), TrackPlacemark))>>)

\* A point as parseKML builds it.
KmlPoint(id, c, time) ==
    [id |-> id, lat |-> c.lat, lon |-> c.lon, ele |-> c.ele, time |-> time,
     name |-> <<>>, desc |-> <<>>, enabled |-> TRUE]

\* One "lon,lat,ele" entry, or one gx:coord text, given by its parts: null
\* (the empty tuple) with fewer than two parts or without a numeric lat and
\* lon; ele && !isNaN(ele) ? ele : undefined.
Coordinate(parts) ==
    IF Len(parts) < 2 THEN <<>>
    ELSE LET lon == parseFloat(parts[1])
             lat == parseFloat(parts[2])
             ele == IF Len(parts) >= 3 THEN parseFloat(parts[3]) ELSE <<>>
         IN IF isNaN(lat) \/ isNaN(lon) THEN <<>>
            ELSE <<[lat |-> lat[1], lon |-> lon[1],
                    ele |-> IF ele # <<>> /\ ele[1] # 0 THEN ele ELSE <<>>]>>

\* parseCoordinates(coordString)
parseCoordinates(lines) == Flatten(Map(lines, Coordinate))

\* parseCoordinates(el.querySelector('coordinates')?.textContent || '')
CoordinatesOf(el) ==
    LET found == querySelector(el, "coordinates")
    IN IF found = <<>> THEN <<>> ELSE parseCoordinates(found[1].text)

\* querySelector('Track, gx\\:Track') and querySelectorAll('coord, gx\\:coord')
querySelectorAllOf(el, tags) == SelectSeq(Descendants(el), LAMBDA d : d.tag \in tags)

\* The coordinates a gx:Track gives a point for, each with the text of the
\* when element at its position (undefined when that is missing or empty).
GxCoordinates(trackEl) ==
    LET coords == querySelectorAllOf(trackEl, {"coord", "gx:coord"})
        whens == querySelectorAll(trackEl, "when")
        all == [i \in 1..Len(coords) |->
                   [c |-> Coordinate(coords[i].text),
                    time |-> IF i <= Len(whens) /\ whens[i].text # ""
                             THEN <<whens[i].text>> ELSE <<>>]]
    IN Filter(all, LAMBDA x : x.c # <<>>)

\* parseGxTrack(trackEl, name, desc): null (the empty tuple) without a point;
\* generateId() for the points, then the track, then its segment.
parseGxTrack(trackEl, name, desc, n, ci) ==
    LET found == GxCoordinates(trackEl)
        points == [i \in 1..Len(found) |-> KmlPoint(n + i - 1, found[i].c[1], found[i].time)]
    IN IF Len(points) = 0 THEN <<>>
       ELSE << [id |-> n + Len(points), name |-> name, desc |-> desc,
                segments |-> << [id |-> n + Len(points) + 1, points |-> points,
                                 enabled |-> TRUE] >>,
                color |-> TrackColor(ci), enabled |-> TRUE, expanded |-> TRUE] >>

\* The segments of a MultiGeometry: one per LineString with coordinates, with
\* generateId() for the segment and then for its points.
LineStringIdCount(ls) == IF Len(CoordinatesOf(ls)) > 0 THEN 1 + Len(CoordinatesOf(ls)) ELSE 0

LineStringSegments(lineStrings, n) ==
    LET all == [j \in 1..Len(lineStrings) |->
                   LET base == n + SumSeq(Map(SubSeq(lineStrings, 1, j - 1), LineStringIdCount))
                       coords == CoordinatesOf(lineStrings[j])
                   IN [id |-> base, enabled |-> TRUE,
                       points |-> [k \in 1..Len(coords) |-> KmlPoint(base + k, coords[k], <<>>)]]]
    IN Filter(all, LAMBDA segment : Len(segment.points) > 0)

\* What the four checks of the body of placemarks.forEach find in a Placemark.
PointCoordinates(placemark) ==
    LET point == querySelector(placemark, "Point")
    IN IF point = <<>> THEN <<>> ELSE CoordinatesOf(point[1])

LineCoordinates(placemark) ==
    LET lineString == querySelector(placemark, "LineString")
    IN IF lineString = <<>> THEN <<>> ELSE CoordinatesOf(lineString[1])

GxTrackPoints(placemark) ==
    LET gxTrack == First(querySelectorAllOf(placemark, {"Track", "gx:Track"}))
    IN IF gxTrack = <<>> THEN <<>> ELSE GxCoordinates(gxTrack[1])

MultiLineStrings(placemark) ==
    LET multiGeometry == querySelector(placemark, "MultiGeometry")
    IN IF multiGeometry = <<>> THEN <<>>
       ELSE querySelectorAll(multiGeometry[1], "LineString")

\* generateId() calls spent on the Point, the LineString and the gx:Track of
\* a Placemark, and on all of it; its getNextTrackColor() calls likewise.
PointIdCount(placemark) == IF Len(PointCoordinates(placemark)) > 0 THEN 1 ELSE 0
LineIdCount(placemark) ==
    IF Len(LineCoordinates(placemark)) > 0 THEN Len(LineCoordinates(placemark)) + 1 ELSE 0
GxIdCount(placemark) ==
    IF Len(GxTrackPoints(placemark)) > 0 THEN Len(GxTrackPoints(placemark)) + 2 ELSE 0
MultiIdCount(placemark) ==
    IF SumSeq(Map(MultiLineStrings(placemark), LineStringIdCount)) > 0
    THEN SumSeq(Map(MultiLineStrings(placemark), LineStringIdCount)) + 1 ELSE 0
PlacemarkIdCount(placemark) ==
    PointIdCount(placemark) + LineIdCount(placemark) + GxIdCount(placemark)
        + MultiIdCount(placemark)

LineColorCount(placemark) == IF Len(LineCoordinates(placemark)) > 0 THEN 1 ELSE 0
GxColorCount(placemark) == IF Len(GxTrackPoints(placemark)) > 0 THEN 1 ELSE 0
PlacemarkColorCount(placemark) ==
    LineColorCount(placemark) + GxColorCount(placemark)
        + (IF MultiIdCount(placemark) > 0 THEN 1 ELSE 0)

PlacemarkName(placemark) == TextField(placemark, "name")
PlacemarkDesc(placemark) == TextField(placemark, "description")

\* The body of placemarks.forEach with the counters n and ci: the waypoints,
\* routes and tracks one Placemark adds.
PlacemarkWaypoints(placemark, n) ==
    LET coords == PointCoordinates(placemark)
    IN When(Len(coords) > 0,
            <<[KmlPoint(n, coords[1], <<>>) EXCEPT
                  !.name = PlacemarkName(placemark), !.desc = PlacemarkDesc(placemark)]>>)

PlacemarkRoutes(placemark, n, ci) ==
    LET coords == LineCoordinates(placemark)
        base == n + PointIdCount(placemark)
    IN When(Len(coords) > 0,
            << [id |-> base + Len(coords),
                name |-> PlacemarkName(placemark), desc |-> PlacemarkDesc(placemark),
                points |-> [k \in 1..Len(coords) |-> KmlPoint(base + k - 1, coords[k], <<>>)],
                color |-> TrackColor(ci), enabled |-> TRUE] >>)

PlacemarkTracks(placemark, n, ci) ==
    LET gxTrack == First(querySelectorAllOf(placemark, {"Track", "gx:Track"}))
        gxBase == n + PointIdCount(placemark) + LineIdCount(placemark)
        gxColor == ci + LineColorCount(placemark)
        segments == LineStringSegments(MultiLineStrings(placemark),
                                       gxBase + GxIdCount(placemark))
    IN (IF gxTrack = <<>> THEN <<>>
        ELSE parseGxTrack(gxTrack[1], PlacemarkName(placemark), PlacemarkDesc(placemark),
                          gxBase, gxColor))
       \o When(Len(segments) > 0,
               << [id |-> n + PlacemarkIdCount(placemark) - 1,
                   name |-> PlacemarkName(placemark), desc |-> PlacemarkDesc(placemark),
                   segments |-> segments,
                   color |-> TrackColor(gxColor + GxColorCount(placemark)),
                   enabled |-> TRUE, expanded |-> TRUE] >>)

\* The counters before the i-th Placemark.
IdsBefore(placemarks, i) == SumSeq(Map(SubSeq(placemarks, 1, i - 1), PlacemarkIdCount))
ColorsBefore(placemarks, i) == SumSeq(Map(SubSeq(placemarks, 1, i - 1), PlacemarkColorCount))

\* parseKML(kmlString): the text is given by whether it holds a parsererror
\* and by its document element; resetColorIndex(), then the Placemarks in
\* document order.
parseKML(kmlString, n, ci) ==
    IF kmlString.parsererror
    THEN [ok |-> FALSE, error |-> "KML Parse Error", nextId |-> n, colorIndex |-> ci]
    ELSE LET placemarks == querySelectorAll(kmlString.root, "Placemark")
             count == Len(placemarks)
         IN [ok |-> TRUE, error |-> "",
             doc |-> [metadata |-> <<>>,
                      waypoints |-> Flatten([i \in 1..count |->
                          PlacemarkWaypoints(placemarks[i], n + IdsBefore(placemarks, i))]),
                      routes |-> Flatten([i \in 1..count |->
                          PlacemarkRoutes(placemarks[i], n + IdsBefore(placemarks, i),
                                          ColorsBefore(placemarks, i))]),
                      tracks |-> Flatten([i \in 1..count |->
                          PlacemarkTracks(placemarks[i], n + IdsBefore(placemarks, i),
                                          ColorsBefore(placemarks, i))]),
                      modified |-> FALSE],
             nextId |-> n + IdsBefore(placemarks, count + 1),
             colorIndex |-> ColorsBefore(placemarks, count + 1)]

KmlText(root) == [parsererror |-> FALSE, root |-> root]

----------------------------------------------------------------------------
(* The codecs applied to enumerated texts and documents.                   *)

\* The most points of a route or segment of an enumerated text or document.
MaxPts == 2

\* The time texts that tell the point elements of a text apart.
Stamps == <<"T1", "T2", "T3", "T4", "T5", "T6", "T7", "T8", "T9", "T10", "T11", "T12">>

\* A wpt, rtept or trkpt element of a GPX text, the k-th point element of the
\* text, by the kind of its attributes: numeric lat and lon ("ok"), the same
\* with a child element of an unknown tag ("ext"), lat missing, lat without
\* a number, lat with a number at its start only, lon missing.
PointKinds == {"ok", "ext", "missing", "nan", "prefix", "nolon"}
PointEl(tag, kind, k) ==
    Element(tag,
            [lat |-> CASE kind = "missing" -> <<>>
                       [] kind = "nan"     -> <<"abc">>
                       [] kind = "prefix"  -> <<"4,5">>
                       [] OTHER            -> <<"1">>,
             lon |-> IF kind = "nolon" THEN <<>> ELSE <<"2">>],
            "",
            <<Leaf("ele", "0"), Leaf("time", Stamps[k])>>
                \o When(kind = "ext", <<Leaf("power", "7")>>))

PointEls(tag, kinds, base) == [i \in 1..Len(kinds) |-> PointEl(tag, kinds[i], base + i)]

\* A GPX text by the kinds of its point elements: the wpt elements, one rte,
\* a trk of two trkseg and a second trk with one good point.
GpxOfKinds(wpts, rtepts, seg1, seg2) ==
    Element("gpx", NoAttrs, "",
            PointEls("wpt", wpts, 0)
         \o <<Element("rte", NoAttrs, "", PointEls("rtept", rtepts, 1))>>
         \o <<Element("trk", NoAttrs, "",
                      <<Leaf("name", "Ride"),
                        Element("trkseg", NoAttrs, "", PointEls("trkpt", seg1, 1 + MaxPts)),
                        Element("trkseg", NoAttrs, "", PointEls("trkpt", seg2, 1 + 2 * MaxPts))>>),
              Element("trk", NoAttrs, "",
                      <<Element("trkseg", NoAttrs, "",
                                PointEls("trkpt", <<"ok">>, 2 + 2 * MaxPts))>>)>>)

GpxTextInputs ==
    { [kind |-> "gpxText", wpts |-> w, rtepts |-> r, seg1 |-> s1, seg2 |-> s2,
       gpx |-> GpxOfKinds(w, r, s1, s2)] :
        w \in {<<>>, <<"ok">>, <<"nan">>},
        r \in SeqsUpTo({"ok", "nan", "nolon"}, MaxPts),
        s1 \in SeqsUpTo(PointKinds, MaxPts),
        s2 \in {<<>>, <<"ext">>, <<"prefix">>} }

\* A GPXWaypoint with its optional fields.
Waypoint(id, lat, lon, fields, enabled) ==
    [id |-> id, lat |-> lat, lon |-> lon, ele |-> fields.ele, time |-> fields.time,
     name |-> fields.name, desc |-> fields.desc, enabled |-> enabled]

GpxDocument(metadata, waypoints, routes, tracks) ==
    [metadata |-> metadata, waypoints |-> waypoints, routes |-> routes, tracks |-> tracks,
     modified |-> FALSE]

\* The optional fields of the points of the enumerated documents: nothing
\* set; elevation 0 and a name; a time and an elevation; an empty name.
Bare == [ele |-> <<>>, time |-> <<>>, name |-> <<>>, desc |-> <<>>]
SeaLevel == [ele |-> <<0>>, time |-> <<>>, name |-> <<"A">>, desc |-> <<"D">>]
Timed == [ele |-> <<5>>, time |-> <<"T1">>, name |-> <<>>, desc |-> <<>>]
Unnamed == [ele |-> <<>>, time |-> <<>>, name |-> <<"">>, desc |-> <<>>]
PointFields == {Bare, SeaLevel, Timed, Unnamed}

\* Points with the given fields, all enabled; the i-th has latitude i.
PointsOf(fields, lon, base) ==
    [i \in 1..Len(fields) |-> Waypoint(base + i, i, lon, fields[i], TRUE)]

Names == {<<>>, <<"">>, <<"Ride">>}

\* Documents whose items are all enabled: one with each metadata, one with
\* each waypoint, one with each route, one with each track of up to two
\* segments (empty segments included).
MetadataDocs ==
    { GpxDocument(<<[name |-> n, desc |-> <<>>, time |-> t, author |-> a]>>, <<>>, <<>>, <<>>) :
        n \in Names, t \in {<<>>, <<"T0">>}, a \in {<<>>, <<[name |-> <<"Ann">>]>>} }
        \cup {GpxDocument(<<>>, <<>>, <<>>, <<>>)}

WaypointDocs ==
    { GpxDocument(<<>>, <<Waypoint(1, 3, 4, [ele |-> e, time |-> t, name |-> n, desc |-> d], TRUE)>>,
                  <<>>, <<>>) :
        e \in {<<>>, <<0>>, <<5>>}, t \in {<<>>, <<"T1">>}, n \in Names, d \in {<<>>, <<"D">>} }

RouteDocs ==
    { GpxDocument(<<>>, <<>>,
                  <<[id |-> 1, name |-> n, desc |-> <<>>, color |-> 0, enabled |-> TRUE,
                     points |-> PointsOf(f, 0, 10)]>>, <<>>) :
        n \in Names, f \in SeqsUpTo(PointFields, MaxPts) }

SegmentsOf(fieldLists) ==
    [j \in 1..Len(fieldLists) |->
        [id |-> 20 * j, enabled |-> TRUE, points |-> PointsOf(fieldLists[j], j, 20 * j)]]

TrackDocs ==
    { GpxDocument(<<>>, <<>>, <<>>,
                  <<[id |-> 2, name |-> n, desc |-> <<>>, color |-> 1, enabled |-> TRUE,
                     expanded |-> TRUE, segments |-> SegmentsOf(fl)]>>) :
        n \in {<<>>, <<"Ride">>},
        fl \in SeqsUpTo(SeqsUpTo({Bare, SeaLevel, Timed}, MaxPts), 2) }

\* Documents of one waypoint, one route of two points and one track of two
\* segments with every combination of enabled flags, with and without times.
\* The latitude of a point tells it from every other point of the document.
FlagDocs ==
    { GpxDocument(<<>>,
          <<Waypoint(1, 1, 0, f, e[1])>>,
          <<[id |-> 2, name |-> <<"R">>, desc |-> <<>>, color |-> 0, enabled |-> e[2],
             points |-> <<Waypoint(3, 2, 0, f, e[3]), Waypoint(4, 3, 0, f, e[4])>>]>>,
          <<[id |-> 5, name |-> <<"T">>, desc |-> <<>>, color |-> 1, enabled |-> e[5],
             expanded |-> TRUE,
             segments |-> <<[id |-> 6, enabled |-> e[6],
                             points |-> <<Waypoint(7, 4, 0, f, e[7]), Waypoint(8, 5, 0, f, e[8])>>],
                            [id |-> 9, enabled |-> e[9],
                             points |-> <<Waypoint(10, 6, 0, f, e[10])>>]>>]>>) :
        e \in [1..10 -> BOOLEAN], f \in {Bare, Timed} }

DocInputs ==
    { [kind |-> "doc", doc |-> d] :
        d \in MetadataDocs \cup WaypointDocs \cup RouteDocs \cup TrackDocs \cup FlagDocs }

\* KML texts of one Placemark holding a MultiGeometry of LineStrings, each
\* without coordinates or with one or two of them; the latitude tells the
\* LineStrings apart.
LineStringEl(count, j) ==
    Element("LineString", NoAttrs, "",
            <<Leaf("coordinates", [i \in 1..count |-> <<NumberToString(i), NumberToString(j), "5">>])>>)

MaxLineStrings == 3

KmlOfCounts(counts, named) ==
    Element("kml", NoAttrs, "",
            <<Element("Document", NoAttrs, "",
                      <<Element("Placemark", NoAttrs, "",
                                When(named, <<Leaf("name", "Loop")>>)
                             \o <<Element("MultiGeometry", NoAttrs, "",
                                          [j \in 1..Len(counts) |->
                                              LineStringEl(counts[j], j)])>>)>>)>>)

KmlTextInputs ==
    { [kind |-> "kmlText", counts |-> c, root |-> KmlOfCounts(c, named)] :
        c \in SeqsUpTo(0..MaxPts, MaxLineStrings), named \in BOOLEAN }

InitIO ==
    /\ input \in GpxTextInputs \cup DocInputs \cup KmlTextInputs
    /\ fn = "none"
    /\ output = <<>>
    /\ document = createEmptyDocument
    /\ selection = <<>>
    /\ clipboard = <<>>
    /\ past = <<>>
    /\ future = <<>>
    /\ colorIndex = 1
    /\ nextId = 100     \* above every identifier of the arguments
    /\ statusMessage = "Ready"
    /\ last = [op |-> "create", arg |-> <<>>, before |-> createEmptyDocument]
    /\ steps = 0

\* What a call of a codec function leaves alone.
OnlyOutput ==
    UNCHANGED <<input, document, selection, clipboard, past, future, colorIndex, nextId,
                statusMessage, last, steps>>

\* parseGPX(text)
ApplyParseGPX ==
    /\ fn = "none"
    /\ input.kind = "gpxText"
    /\ fn' = "parseGPX"
    /\ output' = parseGPXElements(Text(input.gpx), nextId, colorIndex)
    /\ OnlyOutput

\* parseGPX(exportGPX(parsed)) for the document the first parse returned.
ApplyReparseGPX ==
    /\ fn = "parseGPX"
    /\ input.kind = "gpxText"
    /\ output.ok
    /\ fn' = "parseGPX(exportGPX(parseGPX))"
    /\ output' = [first |-> output.doc,
                  again |-> parseGPXElements(Text(exportGPX(output.doc)),
                                             output.nextId, output.colorIndex).doc]
    /\ OnlyOutput

\* exportGPX(doc), then parseGPX of the text.
ApplyExportGPX ==
    /\ fn = "none"
    /\ input.kind = "doc"
    /\ fn' = "exportGPX"
    /\ output' = exportGPX(input.doc)
    /\ OnlyOutput

ApplyParseExportedGPX ==
    /\ fn = "exportGPX"
    /\ fn' = "parseGPX(exportGPX)"
    /\ output' = parseGPXElements(Text(output), nextId, colorIndex)
    /\ OnlyOutput

\* exportKML(doc), then parseKML of the text.
ApplyExportKML ==
    /\ fn = "none"
    /\ input.kind = "doc"
    /\ fn' = "exportKML"
    /\ output' = exportKML(input.doc)
    /\ OnlyOutput

ApplyParseExportedKML ==
    /\ fn = "exportKML"
    /\ fn' = "parseKML(exportKML)"
    /\ output' = parseKML(KmlText(output), nextId, colorIndex)
    /\ OnlyOutput

\* parseKML(text)
ApplyParseKML ==
    /\ fn = "none"
    /\ input.kind = "kmlText"
    /\ fn' = "parseKML"
    /\ output' = parseKML(KmlText(input.root), nextId, colorIndex)
    /\ OnlyOutput

NextIO ==
    \/ ApplyParseGPX \/ ApplyReparseGPX
    \/ ApplyExportGPX \/ ApplyParseExportedGPX
    \/ ApplyExportKML \/ ApplyParseExportedKML
    \/ ApplyParseKML

SpecIO == InitIO /\ [][NextIO]_vars

----------------------------------------------------------------------------
(* Properties of the GPX parser (checked under SpecIO).                    *)

\* The time texts of the point elements of the given kinds, in file order.
StampsOfKinds(kinds, base, valid) ==
    LET indices == SelectSeq([i \in 1..Len(kinds) |-> i], LAMBDA i : kinds[i] \in valid)
    IN [k \in 1..Len(indices) |-> Stamps[base + indices[k]]]

\* The points a text of the given kinds should give, when the elements of
\* the kinds in valid are the valid ones: by container, in file order, without
\* segments that have no valid point and tracks that have no segment.
ExpectedStamps(in, valid) ==
    LET segments == SelectSeq(<<StampsOfKinds(in.seg1, 1 + MaxPts, valid),
                                StampsOfKinds(in.seg2, 1 + 2 * MaxPts, valid)>>,
                              LAMBDA sg : sg # <<>>)
    IN [waypoints |-> StampsOfKinds(in.wpts, 0, valid),
        routes    |-> <<StampsOfKinds(in.rtepts, 1, valid)>>,
        tracks    |-> When(segments # <<>>, <<segments>>) \o <<<<<<Stamps[3 + 2 * MaxPts]>>>>>>]

TimesOf(points) == [i \in 1..Len(points) |-> points[i].time[1]]

ActualStamps(doc) ==
    [waypoints |-> TimesOf(doc.waypoints),
     routes    |-> [i \in 1..Len(doc.routes) |-> TimesOf(doc.routes[i].points)],
     tracks    |-> [i \in 1..Len(doc.tracks) |->
                      [j \in 1..Len(doc.tracks[i].segments) |->
                          TimesOf(doc.tracks[i].segments[j].points)]]]

\* The kinds of point elements from whose lat and lon a number can be read;
\* a text such as "4,5" counts, read as the number at its start.
NumberedKinds == {"ok", "ext", "prefix"}

\* C14: parseGPX of a text in which some wpt, rtept and trkpt elements have a
\* lat or lon that is missing or holds no number raises no error and returns
\* exactly the other points, in file order and each in its route or segment;
\* a segment left without a point and a track left without a segment are not
\* in the document.
C14_InvalidPointsAreSkipped ==
    (fn = "parseGPX" /\ input.kind = "gpxText") =>
        /\ output.ok
        /\ ActualStamps(output.doc) = ExpectedStamps(input, NumberedKinds)

\* A text parsed whose first trk has only points without a number in lat, so
\* that the trk is not in the document, and whose rte lost one point of two.
C14_Witness ==
    /\ fn = "parseGPX"
    /\ input.kind = "gpxText"
    /\ input.seg1 = <<"missing", "nan">>
    /\ input.seg2 = <<>>
    /\ input.rtepts = <<"nolon", "ok">>
    /\ Len(output.doc.tracks) = 1
    /\ Len(output.doc.routes[1].points) = 1

\* The time texts of the point elements that have a child of an unknown tag.
ExtStamps(in) ==
    Range(StampsOfKinds(in.wpts, 0, {"ext"})) \cup Range(StampsOfKinds(in.rtepts, 1, {"ext"}))
        \cup Range(StampsOfKinds(in.seg1, 1 + MaxPts, {"ext"}))
        \cup Range(StampsOfKinds(in.seg2, 1 + 2 * MaxPts, {"ext"}))

\* All points of a document: waypoints, route points, track points.
AllPoints(doc) ==
    doc.waypoints \o Flatten(Map(doc.routes, LAMBDA r : r.points))
        \o Flatten(Map(doc.tracks, TrackPoints))

ExtensionsOf(doc) == Map(AllPoints(doc), LAMBDA p : p.extensions)

\* C15: parseGPX stores the child element of an unknown tag of every point
\* under that tag in the point's extensions, and the document parsed from the
\* exported text of a parsed document has the same extensions as that document.
C15_ExtensionsAreKept ==
    /\ (fn = "parseGPX" /\ input.kind = "gpxText") =>
          \A i \in 1..Len(AllPoints(output.doc)) :
              LET p == AllPoints(output.doc)[i] IN
              p.time[1] \in ExtStamps(input) =>
                  /\ p.extensions # <<>>
                  /\ "power" \in DOMAIN p.extensions[1]
    /\ fn = "parseGPX(exportGPX(parseGPX))" =>
          ExtensionsOf(output.again) = ExtensionsOf(output.first)

\* Only the second half: parsing the exported text gives the extensions of
\* the parsed document again (none).
C15_SameExtensionsAfterRoundTrip ==
    fn = "parseGPX(exportGPX(parseGPX))" =>
        /\ ExtensionsOf(output.again) = ExtensionsOf(output.first)
        /\ \A i \in 1..Len(ExtensionsOf(output.first)) : ExtensionsOf(output.first)[i] = <<>>

----------------------------------------------------------------------------
(* Properties of the exporters (checked under SpecIO).                     *)

\* The (lat, lon) texts of the points of a document that are enabled under
\* the given enabled containers; in the enumerated documents they tell the
\* points of one document apart.
LatLon(p) == <<NumberToString(p.lat), NumberToString(p.lon)>>
EnabledOf(items) == Filter(items, LAMBDA x : x.enabled)

EnabledChainPoints(doc) ==
    EnabledOf(doc.waypoints)
        \o Flatten(Map(EnabledOf(doc.routes), LAMBDA r : EnabledOf(r.points)))
        \o Flatten(Map(EnabledOf(doc.tracks),
                       LAMBDA t : Flatten(Map(EnabledOf(t.segments),
                                              LAMBDA sg : EnabledOf(sg.points)))))

\* The (lat, lon) texts a GPX text and a KML text hold, in document order.
GpxLatLons(gpx) ==
    Map(querySelectorAllOf(gpx, {"wpt", "rtept", "trkpt"}),
        LAMBDA el : <<el.attrs.lat[1], el.attrs.lon[1]>>)

KmlLatLons(kml) ==
    Flatten(Map(querySelectorAllOf(kml, {"coordinates", "gx:coord"}),
                LAMBDA el : IF el.tag = "coordinates"
                            THEN Map(el.text, LAMBDA parts : <<parts[2], parts[1]>>)
                            ELSE <<<<el.text[2], el.text[1]>>>>))

----------------------------------------------------------------------------
(* Round trips through the GPX and KML texts (checked under SpecIO).       *)

AllEnabled(doc) ==
    /\ \A i \in 1..Len(doc.waypoints) : doc.waypoints[i].enabled
    /\ \A i \in 1..Len(doc.routes) :
          doc.routes[i].enabled /\ \A k \in 1..Len(doc.routes[i].points) :
                                       doc.routes[i].points[k].enabled
    /\ \A i \in 1..Len(doc.tracks) :
          /\ doc.tracks[i].enabled
          /\ \A j \in 1..Len(doc.tracks[i].segments) :
                /\ doc.tracks[i].segments[j].enabled
                /\ \A k \in 1..Len(doc.tracks[i].segments[j].points) :
                      doc.tracks[i].segments[j].points[k].enabled

\* A document without its identifiers, colours and display state.
PointContent(p) ==
    [lat |-> p.lat, lon |-> p.lon, ele |-> p.ele, time |-> p.time, name |-> p.name,
     desc |-> p.desc]
PointContents(points) == [k \in 1..Len(points) |-> PointContent(points[k])]

Content(doc) ==
    [metadata  |-> doc.metadata,
     waypoints |-> PointContents(doc.waypoints),
     routes    |-> [i \in 1..Len(doc.routes) |->
                      [name |-> doc.routes[i].name, desc |-> doc.routes[i].desc,
                       points |-> PointContents(doc.routes[i].points)]],
     tracks    |-> [i \in 1..Len(doc.tracks) |->
                      [name |-> doc.tracks[i].name, desc |-> doc.tracks[i].desc,
                       segments |-> [j \in 1..Len(doc.tracks[i].segments) |->
                                        PointContents(doc.tracks[i].segments[j].points)]]]]

\* C17: for a document whose items are all enabled, parseGPX of the text
\* exportGPX writes has the same metadata, waypoints, routes, tracks and
\* segments in the same order with the same latitude, longitude, elevation,
\* time, name and description everywhere.
C17_GpxRoundTrip ==
    (fn = "parseGPX(exportGPX)" /\ AllEnabled(input.doc)) =>
        output.ok /\ Content(output.doc) = Content(input.doc)

\* What the GPX text cannot carry or the parser reads differently: an
\* empty-string name, a segment without points, a track without segments, an
\* unnamed route, track or metadata above a name further down.
NoEmptyText(o) == o = <<>> \/ o[1] # ""
SomeNamed(points) == Some(points, LAMBDA p : p.name # <<>>)
SomeDescribed(points) == Some(points, LAMBDA p : p.desc # <<>>)

CarriedByGpx(doc) ==
    /\ doc.metadata # <<>> =>
          /\ NoEmptyText(doc.metadata[1].name)
          /\ ~(doc.metadata[1].name = <<>> /\ doc.metadata[1].author # <<>>)
    /\ \A i \in 1..Len(AllPoints(doc)) : NoEmptyText(AllPoints(doc)[i].name)
    /\ \A i \in 1..Len(doc.routes) :
          /\ NoEmptyText(doc.routes[i].name)
          /\ doc.routes[i].name = <<>> => ~SomeNamed(doc.routes[i].points)
          /\ doc.routes[i].desc = <<>> => ~SomeDescribed(doc.routes[i].points)
    /\ \A i \in 1..Len(doc.tracks) :
          /\ NoEmptyText(doc.tracks[i].name)
          /\ doc.tracks[i].segments # <<>>
          /\ \A j \in 1..Len(doc.tracks[i].segments) : doc.tracks[i].segments[j].points # <<>>
          /\ doc.tracks[i].name = <<>> => ~SomeNamed(TrackPoints(doc.tracks[i]))
          /\ doc.tracks[i].desc = <<>> => ~SomeDescribed(TrackPoints(doc.tracks[i]))

\* The round trip for the documents the GPX text carries; elevation 0 and
\* routes without points are among them.
C17_RoundTripOfCarriedDocuments ==
    (fn = "parseGPX(exportGPX)" /\ AllEnabled(input.doc) /\ CarriedByGpx(input.doc)) =>
        output.ok /\ Content(output.doc) = Content(input.doc)

\* The coordinates of the points of a list, and those with the times.
Coordinates(points) ==
    [k \in 1..Len(points) |-> [lat |-> points[k].lat, lon |-> points[k].lon,
                               ele |-> points[k].ele]]
TimedCoordinates(points) ==
    [k \in 1..Len(points) |-> [lat |-> points[k].lat, lon |-> points[k].lon,
                               ele |-> points[k].ele, time |-> points[k].time]]

Timestamped(track) == Some(TrackPoints(track), LAMBDA p : TruthyText(p.time))

SameThroughKml(before, after) ==
    /\ Len(after.waypoints) = Len(before.waypoints)
    /\ Len(after.routes) = Len(before.routes)
    /\ Len(after.tracks) = Len(before.tracks)
    /\ Coordinates(after.waypoints) = Coordinates(before.waypoints)
    /\ \A i \in 1..Len(before.routes) :
          Coordinates(after.routes[i].points) = Coordinates(before.routes[i].points)
    /\ \A i \in 1..Len(before.tracks) :
          IF Timestamped(before.tracks[i])
          THEN TimedCoordinates(TrackPoints(after.tracks[i]))
                  = TimedCoordinates(TrackPoints(before.tracks[i]))
          ELSE Coordinates(TrackPoints(after.tracks[i]))
                  = Coordinates(TrackPoints(before.tracks[i]))

\* C18: for a document whose items are all enabled, parseKML of the text
\* exportKML writes has as many waypoints, routes and tracks (a track comes
\* back as a track), every point with its latitude, longitude and elevation
\* and, in a track with times, its time.
C18_KmlRoundTrip ==
    (fn = "parseKML(exportKML)" /\ AllEnabled(input.doc)) =>
        output.ok /\ SameThroughKml(input.doc, output.doc)

\* What comes back from the KML text: points with an elevation other than 0,
\* routes with points, tracks with times.
CarriedByKml(doc) ==
    /\ \A i \in 1..Len(AllPoints(doc)) : AllPoints(doc)[i].ele # <<0>>
    /\ \A i \in 1..Len(doc.routes) : doc.routes[i].points # <<>>
    /\ \A i \in 1..Len(doc.tracks) : Timestamped(doc.tracks[i])

C18_RoundTripOfCarriedDocuments ==
    (fn = "parseKML(exportKML)" /\ AllEnabled(input.doc) /\ CarriedByKml(input.doc)) =>
        output.ok /\ SameThroughKml(input.doc, output.doc)

\* C19: parseKML of a Placemark with a MultiGeometry of k LineStrings that
\* all have coordinates returns one track of k segments, the j-th with the
\* points of the j-th LineString, and no route and no waypoint.
SegmentsOfLineStrings(doc, counts) ==
    /\ Len(doc.tracks) = 1
    /\ Len(doc.tracks[1].segments) = Len(counts)
    /\ \A j \in 1..Len(counts) :
          Coordinates(doc.tracks[1].segments[j].points)
             = [i \in 1..counts[j] |-> [lat |-> j, lon |-> i, ele |-> <<5>>]]

NonEmptyLineStrings(in) ==
    /\ in.kind = "kmlText"
    /\ in.counts # <<>>
    /\ \A j \in 1..Len(in.counts) : in.counts[j] > 0

C19_MultiGeometryIsOneTrack ==
    (fn = "parseKML" /\ NonEmptyLineStrings(input)) =>
        /\ output.ok
        /\ SegmentsOfLineStrings(output.doc, input.counts)
        /\ output.doc.routes = <<>>
        /\ output.doc.waypoints = <<>>

\* The part about the track and the waypoints alone.
C19_TrackOfSegments ==
    (fn = "parseKML" /\ NonEmptyLineStrings(input)) =>
        /\ output.ok
        /\ SegmentsOfLineStrings(output.doc, input.counts)
        /\ output.doc.waypoints = <<>>

----------------------------------------------------------------------------
(* Simplification (checked under SpecOps).                                  *)

\* C20: for every point list and every tolerance of 0 or more, simplifyTrack
\* returns, and simplifying its result again at the same tolerance returns
\* the same point sequence.
C20_SimplifyIsIdempotent ==
    (fn = "simplifyTrack" /\ input.tolerance >= 0) =>
        /\ output.once.ok
        /\ output.twice.ok
        /\ output.twice.points = output.once.points

\* A list of the longest kind at a tolerance above 0 from which the
\* simplification removes an interior point and keeps another.
C20_Witness ==
    /\ fn = "simplifyTrack"
    /\ input.tolerance > 0
    /\ Len(input.points) = MaxTrackLen
    /\ output.once.ok
    /\ Len(output.once.points) > 2
    /\ Len(output.once.points) < Len(input.points)

\* The position in the input of the k-th point of the result: the points of
\* an input list have the identifiers 81, 82, ... in order.
InputIndex(pt) == pt.id - 80

\* The perpendicularDistance of every interior point of the list to the
\* chord from its first to its last point is within the tolerance.
InteriorWithin(points, tolerance) ==
    \A i \in 2..(Len(points) - 1) :
        ~ExceedsTolerance(perpendicularDistance(points[i], points[1], points[Len(points)]),
                          tolerance)

\* C21: for every list of at least 2 points and every tolerance of 0 or more
\* the result of simplifyTrack is a subsequence of the input, in the input's
\* order, that starts with the first and ends with the last input point; it
\* is exactly [first, last] when every interior point is within the
\* tolerance of the chord from the first point to the last.
C21_SubsequenceWithEndpoints ==
    (fn = "simplifyTrack" /\ Len(input.points) >= 2 /\ input.tolerance >= 0) =>
        LET P == input.points
            R == output.once.points
        IN /\ output.once.ok
           /\ \A k \in 1..Len(R) :
                 /\ InputIndex(R[k]) \in 1..Len(P)
                 /\ R[k] = P[InputIndex(R[k])]
           /\ \A k \in 1..(Len(R) - 1) : InputIndex(R[k]) < InputIndex(R[k + 1])
           /\ R[1] = P[1]
           /\ R[Len(R)] = P[Len(P)]
           /\ InteriorWithin(P, input.tolerance) => R = <<P[1], P[Len(P)]>>

\* A longest list with an interior point off the chord, collapsed to its
\* two ends by a tolerance that covers it.
C21_Witness ==
    /\ fn = "simplifyTrack"
    /\ Len(input.points) = MaxTrackLen
    /\ input.tolerance > 0
    /\ InteriorWithin(input.points, input.tolerance)
    /\ ~InteriorWithin(input.points, 0)
    /\ output.once.ok
    /\ Len(output.once.points) = 2

\* The first interior point of the list that is farthest from the chord
\* between its ends (0-based, as maxIndex).
FirstFarthest(points) ==
    CHOOSE i \in 1..(Len(points) - 2) :
        LET d(k) == perpendicularDistance(points[k + 1], points[1], points[Len(points)])
        IN /\ \A k \in 1..(Len(points) - 2) : ~Farther(d(k), d(i))
           /\ \A k \in 1..(i - 1) : Farther(d(i), d(k))

\* C22: every input point that simplifyTrack leaves out is within the
\* tolerance of the chord between the retained points around it; a list
\* whose largest deviation equals the tolerance collapses to its two ends;
\* and when the largest deviation is above the tolerance, the first point
\* that has it is retained.
C22_OmittedPointsWithinTolerance ==
    (fn = "simplifyTrack" /\ Len(input.points) >= 2 /\ input.tolerance >= 0) =>
        LET P == input.points
            R == output.once.points
        IN /\ output.once.ok
           /\ \A k \in 1..(Len(R) - 1) :
                 \A i \in (InputIndex(R[k]) + 1)..(InputIndex(R[k + 1]) - 1) :
                     ~ExceedsTolerance(perpendicularDistance(P[i], R[k], R[k + 1]),
                                       input.tolerance)
           /\ InteriorWithin(P, input.tolerance) => Len(R) = 2
           /\ (Len(P) > 2 /\ ~InteriorWithin(P, input.tolerance)) =>
                 \E k \in 1..Len(R) : InputIndex(R[k]) = FirstFarthest(P) + 1

\* A list whose largest deviation from the chord between its ends is exactly
\* the tolerance, collapsed to its ends.
CollapsedAtTolerance ==
    /\ fn = "simplifyTrack"
    /\ input.tolerance > 0
    /\ Len(input.points) > 2
    /\ output.once.ok
    /\ InteriorWithin(input.points, input.tolerance)
    /\ \E i \in 2..(Len(input.points) - 1) :
          LET d == perpendicularDistance(input.points[i], input.points[1],
                                         input.points[Len(input.points)])
          IN d.num = Sq(input.tolerance) * d.den

\* A list with two interior points tied for the largest deviation, above the
\* tolerance: the list is split at the first and the second is left out.
C22_Witness ==
    /\ fn = "simplifyTrack"
    /\ input.tolerance > 0
    /\ Len(input.points) > 2
    /\ output.once.ok
    /\ ~InteriorWithin(input.points, input.tolerance)
    /\ \E i \in (FirstFarthest(input.points) + 2)..(Len(input.points) - 1) :
          LET d(k) == perpendicularDistance(input.points[k], input.points[1],
                                            input.points[Len(input.points)])
          IN /\ ~Farther(d(FirstFarthest(input.points) + 1), d(i))
             /\ \A k \in 1..Len(output.once.points) :
                   InputIndex(output.once.points[k]) # i

\* C28: simplifyTrack returns for every point list and every tolerance,
\* tolerances below 0 included.
C28_SimplifyTerminates ==
    fn = "simplifyTrack" => output.once.ok

\* The split index is an interior index, and so the call returns, whenever
\* the tolerance is 0 or more.
C28_TerminatesFromZeroUp ==
    (fn = "simplifyTrack" /\ input.tolerance >= 0) => output.once.ok

----------------------------------------------------------------------------
(* Commands made of several store operations (checked under Spec).         *)

\* The entries of a selection that the Delete command deletes.
DeletedEntries(sels) == Filter(sels, LAMBDA x : x.type # "segment")

\* The last command was Delete over more than one item, or a split made in
\* the split dialog; and Delete over exactly one item.
CompositeCommandRan ==
    \/ last.op = "handleDelete" /\ Len(DeletedEntries(last.arg)) > 1
    \/ last.op = "handleSplit" /\ document # last.before
SingleDeleteRan == last.op = "handleDelete" /\ Len(DeletedEntries(last.arg)) = 1

\* C23: after Delete over k > 1 selected items, or after a split in the split
\* dialog, one undo() brings back the document the command started from.
C23_CommandIsOneUndoStep ==
    CompositeCommandRan => UndoOf(Here).document = last.before

\* The same for Delete over one item, which is one store operation.
C23_SingleDeleteIsOneUndoStep ==
    SingleDeleteRan => UndoOf(Here).document = last.before

----------------------------------------------------------------------------
(* Colours of imported batches (checked under Spec).                       *)

\* The colours of the items that the last operation appended to the
\* document it started from.
AddedColours ==
    {document.tracks[i].color : i \in (Len(last.before.tracks) + 1)..Len(document.tracks)}
    \cup {document.routes[i].color : i \in (Len(last.before.routes) + 1)..Len(document.routes)}
    \cup {document.waypoints[i].color :
             i \in (Len(last.before.waypoints) + 1)..Len(document.waypoints)}

\* C26: two files imported one right after the other (each parsed and then
\* added with mergeDocument) get different batch colours.
C26_ConsecutiveImportsDiffer ==
    [][(last.op = "mergeDocument" /\ last'.op = "mergeDocument")
          => AddedColours' \cap AddedColours = {}]_vars

\* What the code does give: the items of one batch share one colour, the
\* palette colour at the number of routes and tracks of the file.
C26_BatchSharesFileColour ==
    last.op = "mergeDocument" =>
        AddedColours = {TrackColor(Len(last.arg.routes) + Len(last.arg.tracks))}

----------------------------------------------------------------------------
(* Undo after redo (checked under Spec).                                   *)

\* C27: right after a redo(), an undo() makes the document what it was
\* before that redo; so undo, redo, undo ends where the first undo ended.
C27_RedoIsUndoable ==
    last.op = "redo" => UndoOf(Here).document = last.before

\* What the code does: redo() puts the document it adopts on past, so the
\* undo() after it adopts the same document again.
C27_UndoAfterRedoKeepsDocument ==
    last.op = "redo" =>
        /\ past # <<>>
        /\ past[Len(past)] = document
        /\ UndoOf(Here).document = document

----------------------------------------------------------------------------
(* The selection against the document (checked under Spec).                *)

\* A selection entry names an item of the document: a track, route or
\* waypoint by its id, a segment by the ids of its track and of itself.
Exists(x, doc) ==
    CASE x.type = "track" -> x.id \in TrackIds(doc)
      [] x.type = "route" -> x.id \in RouteIds(doc)
      [] x.type = "waypoint" -> x.id \in WaypointIds(doc)
      [] x.type = "segment" ->
           \E i \in 1..Len(doc.tracks) :
               /\ doc.tracks[i].id = x.trackId
               /\ \E j \in 1..Len(doc.tracks[i].segments) :
                     doc.tracks[i].segments[j].id = x.segmentId

\* C29: in every reachable state of the store every selection entry names an
\* item of the current document.
C29_SelectionNamesExistingItems ==
    \A k \in 1..Len(selection) : Exists(selection[k], document)

\* The same for the entries that are not segments.
C29_ItemEntriesExist ==
    \A k \in 1..Len(selection) :
        selection[k].type # "segment" => Exists(selection[k], document)

----------------------------------------------------------------------------
(* lib/gpx/calculations.ts: calculateStatistics.  The points handed to it  *)
(* lie on the equator and their longitudes count metres of arc, so that    *)
(* haversineDistance is the difference of the longitudes; elevations are   *)
(* whole metres and times whole seconds.  A ratio (a grade, a speed) is    *)
(* kept as the fraction num/den with den > 0.  The averages avgElevation,  *)
(* avgSpeed and movingSpeed are left out.                                  *)

Abs(x) == IF x < 0 THEN -x ELSE x

\* haversineDistance(lat1, lon1, lat2, lon2) for two points of one parallel
\* that is the equator.
haversineDistance(lat1, lon1, lat2, lon2) == Abs(lon2 - lon1)

\* new Date(time).getTime() for the time texts of the inputs, in milliseconds.
DateTexts == <<"1970-01-01T00:00:00Z", "1970-01-01T00:00:03Z">>
getTime(time) == IF time = DateTexts[1] THEN 0 ELSE 3000

\* a > b for two ratios, and the ratio 0.
Greater(a, b) == a.num * b.den > b.num * a.den
ZeroRatio == [num |-> 0, den |-> 1]

\* The accumulators before the loop (let totalDistance = 0; ...).
ZeroStatistics ==
    [totalDistance |-> 0, movingDistance |-> 0, movingTime |-> 0, restTime |-> 0,
     maxSpeed |-> ZeroRatio, totalClimb |-> 0, totalDescent |-> 0,
     climbDistance |-> 0, descentDistance |-> 0, flatDistance |-> 0,
     steepestClimb |-> ZeroRatio, steepestDescent |-> ZeroRatio]

\* The time block of the loop body for one interval.
TimeStep(acc, prev, curr, distance) ==
    IF TruthyText(prev.time) /\ TruthyText(curr.time)
    THEN LET timeDiff == (getTime(curr.time[1]) - getTime(prev.time[1])) \div 1000
             speed == [num |-> distance, den |-> timeDiff]
         IN IF timeDiff > 0
            THEN IF 2 * distance > timeDiff      \* speed > MOVING_THRESHOLD_MPS (0.5)
                 THEN [acc EXCEPT !.movingDistance = @ + distance,
                                  !.movingTime = @ + timeDiff,
                                  !.maxSpeed = IF Greater(speed, @) THEN speed ELSE @]
                 ELSE [acc EXCEPT !.restTime = @ + timeDiff]
            ELSE acc
    ELSE acc

\* The elevation block of the loop body for one interval;
\* FLAT_THRESHOLD_METERS is 1.
ElevationStep(acc, prev, curr, distance) ==
    IF prev.ele # <<>> /\ curr.ele # <<>>
    THEN LET eleDiff == curr.ele[1] - prev.ele[1]
             grade == IF distance > 0 THEN [num |-> eleDiff * 100, den |-> distance]
                      ELSE ZeroRatio
             absGrade == [grade EXCEPT !.num = Abs(@)]
         IN IF Abs(eleDiff) > 1
            THEN IF eleDiff > 0
                 THEN [acc EXCEPT !.totalClimb = @ + eleDiff,
                                  !.climbDistance = @ + distance,
                                  !.steepestClimb = IF Greater(grade, @) THEN grade ELSE @]
                 ELSE [acc EXCEPT !.totalDescent = @ + Abs(eleDiff),
                                  !.descentDistance = @ + distance,
                                  !.steepestDescent =
                                      IF Greater(absGrade, @) THEN absGrade ELSE @]
            ELSE [acc EXCEPT !.flatDistance = @ + distance]
    ELSE [acc EXCEPT !.flatDistance = @ + distance]

\* for (let i = 1; i < points.length; i++) from the 0-based index i on.
RECURSIVE StatisticsLoop(_, _, _)
StatisticsLoop(points, i, acc) ==
    IF i >= Len(points) THEN acc
    ELSE LET distance == haversineDistance(points[i].lat, points[i].lon,
                                           points[i + 1].lat, points[i + 1].lon)
         IN StatisticsLoop(points, i + 1,
                ElevationStep(
                    TimeStep([acc EXCEPT !.totalDistance = @ + distance],
                             points[i], points[i + 1], distance),
                    points[i], points[i + 1], distance))

\* Math.min(...elevations) and Math.max(...elevations), 0 without elevations.
Elevations(points) == {points[i].ele[1] : i \in {k \in 1..Len(points) : points[k].ele # <<>>}}
MinElevation(points) ==
    IF Elevations(points) = {} THEN 0
    ELSE CHOOSE e \in Elevations(points) : \A f \in Elevations(points) : e <= f
MaxElevation(points) ==
    IF Elevations(points) = {} THEN 0
    ELSE CHOOSE e \in Elevations(points) : \A f \in Elevations(points) : e >= f

\* calculateStatistics(points)
calculateStatistics(points) ==
    LET acc == IF Len(points) < 2 THEN ZeroStatistics
               ELSE StatisticsLoop(points, 1, ZeroStatistics)
    IN [distance |-> acc.totalDistance,
        movingTime |-> acc.movingTime,
        totalTime |-> IF Len(points) >= 2 /\ TruthyText(points[1].time)
                         /\ TruthyText(points[Len(points)].time)
                      THEN (getTime(points[Len(points)].time[1])
                            - getTime(points[1].time[1])) \div 1000
                      ELSE 0,
        restTime |-> acc.restTime,
        maxSpeed |-> acc.maxSpeed,
        totalClimb |-> acc.totalClimb,
        totalDescent |-> acc.totalDescent,
        minElevation |-> MinElevation(points),
        maxElevation |-> MaxElevation(points),
        steepestClimb |-> acc.steepestClimb,
        steepestDescent |-> acc.steepestDescent,
        climbDistance |-> acc.climbDistance,
        descentDistance |-> acc.descentDistance,
        flatDistance |-> acc.flatDistance,
        pointCount |-> Len(points)]

\* Number of points of the longest list handed to calculateStatistics.
MaxStatPts == 3

\* The point lists handed to calculateStatistics: up to MaxStatPts points at
\* 0 or 2 metres along the equator, without elevation or at 0, 1 or 3 metres,
\* without time or at second 0 or 3.
StatPoints ==
    { [lat |-> 0, lon |-> lo, ele |-> e, time |-> t] :
        lo \in {0, 2},
        e \in {<<>>, <<0>>, <<1>>, <<3>>},
        t \in {<<>>, <<DateTexts[1]>>, <<DateTexts[2]>>} }
StatInputs == { [kind |-> "statPoints", points |-> pts] : pts \in SeqsUpTo(StatPoints, MaxStatPts) }

InitStats ==
    /\ input \in StatInputs
    /\ fn = "none"
    /\ output = <<>>
    /\ document = createEmptyDocument
    /\ selection = <<>>
    /\ clipboard = <<>>
    /\ past = <<>>
    /\ future = <<>>
    /\ colorIndex = 1
    /\ nextId = 100
    /\ statusMessage = "Ready"
    /\ last = [op |-> "create", arg |-> <<>>, before |-> createEmptyDocument]
    /\ steps = 0

ApplyCalculateStatistics ==
    /\ fn = "none"
    /\ input.kind = "statPoints"
    /\ fn' = "calculateStatistics"
    /\ output' = calculateStatistics(input.points)
    /\ OnlyOutput

NextStats == ApplyCalculateStatistics

SpecStats == InitStats /\ [][NextStats]_vars

----------------------------------------------------------------------------
(* Properties of the statistics (checked under SpecStats).                 *)

\* The intervals of a point list by the index of their first point, their
\* length and their elevation and time differences.
Intervals(points) == 1..(Len(points) - 1)
Length(points, i) == Abs(points[i + 1].lon - points[i].lon)
HasElevations(points, i) == points[i].ele # <<>> /\ points[i + 1].ele # <<>>
HasTimes(points, i) == points[i].time # <<>> /\ points[i + 1].time # <<>>
Rise(points, i) == points[i + 1].ele[1] - points[i].ele[1]
Seconds(points, i) == (getTime(points[i + 1].time[1]) - getTime(points[i].time[1])) \div 1000

\* The grade of an interval as a ratio, and a statistic being the largest
\* of the grades of a set of intervals (0 when the set is empty).
Grade(points, i) == [num |-> Abs(Rise(points, i)) * 100, den |-> Length(points, i)]
SameRatio(a, b) == a.num * b.den = b.num * a.den
IsLargestGrade(stat, points, among) ==
    IF among = {} THEN SameRatio(stat, ZeroRatio)
    ELSE /\ \E i \in among : SameRatio(stat, Grade(points, i))
         /\ \A i \in among : ~Greater(Grade(points, i), stat)

\* The sum of a quantity over the intervals of a set.
SumOver(points, among, ValueOf(_, _)) ==
    SumSeq([i \in 1..(Len(points) - 1) |-> IF i \in among THEN ValueOf(points, i) ELSE 0])

\* C24: steepestClimb is the largest grade of the rising intervals that have
\* two elevations and a positive length, and steepestDescent the largest of
\* the falling ones, whatever the size of the elevation difference.
C24_SteepestOverAllIntervals ==
    fn = "calculateStatistics" =>
        LET P == input.points
            graded == {i \in Intervals(P) : HasElevations(P, i) /\ Length(P, i) > 0}
        IN /\ IsLargestGrade(output.steepestClimb, P, {i \in graded : Rise(P, i) > 0})
           /\ IsLargestGrade(output.steepestDescent, P, {i \in graded : Rise(P, i) < 0})

\* The same over the intervals whose elevation difference is above
\* FLAT_THRESHOLD_METERS.
C24_SteepestOverSteepIntervals ==
    fn = "calculateStatistics" =>
        LET P == input.points
            graded == {i \in Intervals(P) : HasElevations(P, i) /\ Length(P, i) > 0}
        IN /\ IsLargestGrade(output.steepestClimb, P, {i \in graded : Rise(P, i) > 1})
           /\ IsLargestGrade(output.steepestDescent, P, {i \in graded : Rise(P, i) < -1})

\* The time and distance accumulators take their amounts from the intervals
\* with two times (resp. every interval) only.
TimesFromTimedIntervals ==
    LET P == input.points
        timed == {i \in Intervals(P) : HasTimes(P, i) /\ Seconds(P, i) > 0}
    IN /\ output.movingTime + output.restTime = SumOver(P, timed, Seconds)
       /\ output.distance = SumOver(P, Intervals(P), Length)

\* C25: calculateStatistics returns for lists with points without time or
\* elevation; movingTime and restTime take nothing from an interval that
\* lacks a time; totalClimb, totalDescent, climbDistance, descentDistance
\* and flatDistance take nothing from an interval that lacks an elevation;
\* distance takes the length of every interval.
C25_MissingDataIsSkipped ==
    fn = "calculateStatistics" =>
        LET P == input.points
            known == {i \in Intervals(P) : HasElevations(P, i)}
            Climb(pts, i) == IF Rise(pts, i) > 1 THEN Rise(pts, i) ELSE 0
            Descent(pts, i) == IF Rise(pts, i) < -1 THEN -Rise(pts, i) ELSE 0
        IN /\ TimesFromTimedIntervals
           /\ output.totalClimb = SumOver(P, known, Climb)
           /\ output.totalDescent = SumOver(P, known, Descent)
           /\ output.climbDistance + output.descentDistance + output.flatDistance
                 = SumOver(P, known, Length)

\* The same with flatDistance taking the length of the intervals that lack
\* an elevation as well.
C25_SkippedExceptFlatDistance ==
    fn = "calculateStatistics" =>
        LET P == input.points
            known == {i \in Intervals(P) : HasElevations(P, i)}
            Climb(pts, i) == IF Rise(pts, i) > 1 THEN Rise(pts, i) ELSE 0
            Descent(pts, i) == IF Rise(pts, i) < -1 THEN -Rise(pts, i) ELSE 0
            Flat(pts, i) == IF Abs(Rise(pts, i)) <= 1 THEN Length(pts, i) ELSE 0
        IN /\ TimesFromTimedIntervals
           /\ output.totalClimb = SumOver(P, known, Climb)
           /\ output.totalDescent = SumOver(P, known, Descent)
           /\ output.climbDistance + output.descentDistance = SumOver(P, known, Length)
                                                               - SumOver(P, known, Flat)
           /\ output.flatDistance = SumOver(P, known, Flat)
                                    + SumOver(P, Intervals(P) \ known, Length)

-----------------------------------------------------------------------------
(* Opening files.  The three openers are async functions: each runs up to  *)
(* its first await, and resumes when the file's contents have arrived; the *)
(* store's operations run in between.  output holds the opens that are     *)
(* awaiting contents, each with the locals it read before the await.  The  *)
(* sample load is started by the effect that runs when App mounts, so it   *)
(* is awaiting from the start.  A file selection or a drop is of one GPX   *)
(* file that parses.                                                       *)

\* hasExistingData as handleFileSelected and handleDrop compute it from the
\* document they read before the loop.
hasExistingData(currentDoc) ==
    Len(currentDoc.tracks) > 0 \/ Len(currentDoc.routes) > 0 \/ Len(currentDoc.waypoints) > 0

\* What fetch('/sample.gpx') resolves to: a response that is ok with a file's
\* text, or one that is not ok.
Responses == {[ok |-> TRUE, gpx |-> <<f>>] : f \in Files} \cup {[ok |-> FALSE, gpx |-> <<>>]}

InitOpen ==
    \E response \in Responses :
        /\ document = createEmptyDocument
        /\ selection = <<>>
        /\ clipboard = <<>>
        /\ past = <<>>
        /\ future = <<>>
        /\ colorIndex = 0
        /\ nextId = 1
        /\ statusMessage = "Ready"
        /\ last = [op |-> "create", arg |-> <<>>, before |-> createEmptyDocument]
        /\ steps = 0
        /\ fn = "open"
        /\ input = <<>>
        /\ output = << [handler |-> "loadSampleFile", response |-> response] >>

\* The sequence without its k-th element.
RemoveAt(seq, k) == SubSeq(seq, 1, k - 1) \o SubSeq(seq, k + 1, Len(seq))

\* handleFileSelected and handleDrop up to `await file.text()` of the first
\* file: the document is read and hasExistingData computed.
OpenStarts(handler, file) ==
        LET currentDoc == document IN
        /\ Log(handler, file)
        /\ output' = Append(output, [handler |-> handler, file |-> file,
                                     currentDoc |-> currentDoc,
                                     hasExistingData |-> hasExistingData(currentDoc)])
        /\ UNCHANGED <<document, selection, clipboard, past, future, colorIndex, nextId,
                       statusMessage, fn, input>>

handleFileSelected == \E file \in Files : OpenStarts("handleFileSelected", file)

handleDrop == \E file \in Files : OpenStarts("handleDrop", file)

\* loadSampleFile after its awaits: nothing when the response is not ok, else
\* the parsed document is set as the store's document, whatever the store holds.
loadSampleFileResumes ==
    \E k \in DOMAIN output :
        LET open == output[k] IN
        /\ open.handler = "loadSampleFile"
        /\ Log("loadSampleFileResumes", open)
        /\ output' = RemoveAt(output, k)
        /\ IF open.response.ok
           THEN LET parsed == parseGPX(open.response.gpx[1], nextId) IN
                /\ document' = [parsed.doc EXCEPT !.modified = FALSE]
                /\ selection' = <<>>
                /\ nextId' = parsed.nextId
                /\ colorIndex' = parsed.colorIndex
                /\ statusMessage' = "Loaded sample"
           ELSE UNCHANGED <<document, selection, nextId, colorIndex, statusMessage>>
        /\ UNCHANGED <<clipboard, past, future, fn, input>>

\* handleFileSelected and handleDrop after the await (i = 0): the file is
\* parsed; when hasExistingData was false the parsed document is set as the
\* store's document, else it is merged.  handleFileSelected gives the
\* waypoints of a primary load the file's colour (colourWaypoints).
OpenResumes(k, handler, resumed, colourWaypoints) ==
        LET open == output[k] IN
        /\ open.handler = handler
        /\ LET parsed == parseGPX(open.file, nextId)
               doc == parsed.doc
               drawsColor == colourWaypoints /\ doc.tracks = <<>> /\ doc.routes = <<>>
               fileColor == IF doc.tracks # <<>> THEN doc.tracks[1].color
                            ELSE IF doc.routes # <<>> THEN doc.routes[1].color
                            ELSE TrackColor(parsed.colorIndex)   \* getNextTrackColor()
               coloredWaypoints == Map(doc.waypoints, LAMBDA wpt : WithField(wpt, "color", fileColor))
           IN
           /\ Log(resumed, open)
           /\ output' = RemoveAt(output, k)
           /\ IF ~open.hasExistingData
              THEN /\ document' = [doc EXCEPT
                                     !.waypoints = IF colourWaypoints THEN coloredWaypoints ELSE @,
                                     !.modified = FALSE]
                   /\ selection' = <<>>
                   /\ nextId' = parsed.nextId
                   /\ colorIndex' = parsed.colorIndex + (IF drawsColor THEN 1 ELSE 0)
                   /\ UNCHANGED <<clipboard, past, future>>
              ELSE mergeDocumentCall(open.file)
           /\ statusMessage' = "Loaded file"
           /\ UNCHANGED <<fn, input>>

handleFileSelectedResumes ==
    \E k \in DOMAIN output :
        OpenResumes(k, "handleFileSelected", "handleFileSelectedResumes", TRUE)

handleDropResumes ==
    \E k \in DOMAIN output :
        OpenResumes(k, "handleDrop", "handleDropResumes", FALSE)

NextOpen ==
    \/ handleFileSelected \/ handleDrop
    \/ loadSampleFileResumes \/ handleFileSelectedResumes \/ handleDropResumes
    \/ addTrack \/ addRoute \/ addWaypoint \/ deleteWaypoint \/ undo

SpecOpen == InitOpen /\ [][NextOpen]_vars

\* The ids of the tracks, routes and waypoints of a document.
ItemIds(doc) == TrackIds(doc) \cup RouteIds(doc) \cup WaypointIds(doc)

\* The step taken last was an open resuming, and it set the file it read as
\* the primary document.
PrimaryLoadRan ==
    \/ last.op = "loadSampleFileResumes" /\ last.arg.response.ok
    \/ last.op \in {"handleFileSelectedResumes", "handleDropResumes"} /\ ~last.arg.hasExistingData

\* C30: an open (handleFileSelected, handleDrop or the startup sample load)
\* that loads its file as the primary document never overwrites items that
\* were added to the document while the file's contents were awaited: every
\* item the document held when the open resumed is still in the document.
C30_OpenKeepsItemsAddedMeanwhile ==
    PrimaryLoadRan => ItemIds(last.before) \subseteq ItemIds(document)

\* The same for the opens during whose await the document's items did not
\* change, and for the opens that merge: a file selection or a drop that
\* resumes on the items it started from, or that found existing data,
\* loses no item.
C30_UninterruptedOpenKeepsItems ==
    (/\ last.op \in {"handleFileSelectedResumes", "handleDropResumes"}
     /\ \/ last.arg.hasExistingData
        \/ ItemIds(last.before) = ItemIds(last.arg.currentDoc))
    => ItemIds(last.before) \subseteq ItemIds(document)

=============================================================================
